---- MODULE Spec2Model ----
(***************************************************************************)
(* Model of resumer (dvroom-dev/resumer): the session reconciler           *)
(* (main-helpers.ts), the TUI refresh / project deletion handlers that     *)
(* drive it, and the Claude transcript activity inference                  *)
(* (external/claude.ts).                                                   *)
(*                                                                         *)
(* Strings are modelled as sequences of symbols.  The symbol "/" is the    *)
(* path separator and " " is whitespace; every other symbol stands for a   *)
(* run of ordinary characters.  The empty string is the empty sequence.    *)
(* A nullable value is NULL (the empty tuple) or Some(v) (a 1-tuple).      *)
(***************************************************************************)
EXTENDS Integers, Sequences, FiniteSets, TLC

\* ---------------------------------------------------------------- bounds
\* nowIso() readings are drawn from 0..MaxTime
MaxTime == 1
\* error boxes that may be open at the same time
MaxErrorBoxes == 1
\* lines in the tail of a transcript
MaxLines == 7
\* characters in a prompt
MaxPromptLen == 5
\* lines in the history index
MaxHistory == 3

\* ---------------------------------------------------------------- values
NULL == <<>>
Some(v) == <<v>>
IsNull(o) == Len(o) = 0
Val(o) == o[1]

\* x ?? y
Coalesce(o, d) == IF IsNull(o) THEN d ELSE Val(o)

\* tmux session names that can exist
SessionNames == {"alpha", "beta"}

PathAlpha == <<"/", "tmp", "/", "alpha">>
PathSrvAlpha == <<"/", "srv", "/", "alpha", "/">>
PathRoot == <<"/">>
EmptyStr == <<>>

IdP1 == <<"p1">>

Times == 0..MaxTime

\* ------------------------------------------------------- string helpers
RECURSIVE SplitFrom(_, _, _, _)
\* s.split(sep) from position i with the segment cur collected so far
SplitFrom(s, sep, i, cur) ==
  IF i > Len(s) THEN <<cur>>
  ELSE IF s[i] = sep THEN <<cur>> \o SplitFrom(s, sep, i + 1, <<>>)
  ELSE SplitFrom(s, sep, i + 1, Append(cur, s[i]))

Split(s, sep) == SplitFrom(s, sep, 1, <<>>)

\* .filter(Boolean) on an array of strings: drops the empty ones
FilterBoolean(segs) == SelectSeq(segs, LAMBDA x : Len(x) > 0)

RECURSIVE TrimLeft(_)
TrimLeft(s) == IF Len(s) > 0 /\ s[1] = " " THEN TrimLeft(Tail(s)) ELSE s

RECURSIVE TrimRight(_)
TrimRight(s) ==
  IF Len(s) > 0 /\ s[Len(s)] = " " THEN TrimRight(SubSeq(s, 1, Len(s) - 1)) ELSE s

\* String.prototype.trim
Trim(s) == TrimRight(TrimLeft(s))

\* projectPath.split("/").filter(Boolean).at(-1) ?? projectPath
ProjectNameOf(projectPath) ==
  LET segs == FilterBoolean(Split(projectPath, "/"))
  IN IF Len(segs) = 0 THEN projectPath ELSE segs[Len(segs)]

\* state.ts computeProjectId: a deterministic fingerprint of the path
computeProjectId(p) == <<"sha">> \o p


\* ------------------------------------------------------- tmux (external)
\* provenance variables a session may carry
EnvPaths == {NULL, Some(EmptyStr), Some(PathAlpha), Some(PathSrvAlpha)}
EnvIds == {NULL, Some(EmptyStr), Some(IdP1), Some(computeProjectId(PathAlpha))}
CmdBlank == <<" ">>
CmdCodex == <<"codex", " ", "--yolo">>

\* every combination of project path and project id, on a managed session
ProvenanceChoices ==
  { [path |-> p, id |-> i, cmd |-> Some(CmdCodex), createdAt |-> Some(0),
     managed |-> Some(<<"1">>)] : p \in EnvPaths, i \in EnvIds }

\* the other variables, on a session of /tmp/alpha and on a session of /
FlagChoices ==
  { [path |-> Some(PathAlpha), id |-> NULL, cmd |-> NULL, createdAt |-> NULL,
     managed |-> NULL],
    [path |-> Some(PathAlpha), id |-> NULL, cmd |-> Some(CmdBlank), createdAt |-> NULL,
     managed |-> Some(<<"0">>)],
    [path |-> Some(PathRoot), id |-> NULL, cmd |-> Some(EmptyStr), createdAt |-> Some(0),
     managed |-> Some(EmptyStr)] }

EnvChoices == ProvenanceChoices \cup FlagChoices

\* the environments of the specifications that exercise the TUI handlers
TuiEnvChoices ==
  { [path |-> p, id |-> i, cmd |-> Some(CmdCodex), createdAt |-> Some(0),
     managed |-> Some(<<"1">>)] : p \in {NULL, Some(PathAlpha)}, i \in {NULL, Some(IdP1)} }

\* all orders in which tmux may list the sessions of S
RECURSIVE Orders(_)
Orders(S) ==
  IF S = {} THEN {<<>>}
  ELSE UNION { { <<x>> \o rest : rest \in Orders(S \ {x}) } : x \in S }

Range(seq) == { seq[i] : i \in 1..Len(seq) }

VARIABLES
  state,    \* StateV1: [projects: id -> Project, sessions: name -> SessionRecord]
  live,     \* names of the sessions the tmux server runs
  env,      \* the provenance variables in the environment of each session
  ctx,      \* TuiContext
  pending,  \* projects captured by open "Remove project" confirm boxes
  errors,   \* number of open error boxes
  last,     \* the last handler that ran, its inputs and the state it started from
  file,     \* a Claude session transcript: [readable, lines]
  inferred, \* what getLastMessageType returned for it, NULL before the call
  prompt,   \* the display text of a history line, a sequence of characters
  real,     \* what isRealPrompt returned for it, NULL before the call
  claude,   \* the files of the Claude CLI: [candidates, history, files]
  listed,   \* what listClaudeSessions returned, NULL before the call
  shown,    \* the sessions of a project as the sessions panel gets them: [name, command]
  labels,   \* what disambiguateCommands returned for them, NULL before the call
  ui        \* the rest of the TUI context: modalClose, focused, the search, whether
            \* the TUI is done, and the sessions list: expandedSessionIndex,
            \* listIndexToSessionIndex, the number of items and the selected row

\* the TUI and its collaborators
tvars == <<state, live, env, ctx, pending, errors, last>>
\* the transcript reader
xvars == <<file, inferred>>
\* the real-prompt filter
pvars == <<prompt, real>>
\* the session listing
cvars == <<claude, listed>>
\* the command labels
lvars == <<shown, labels>>
vars == <<state, live, env, ctx, pending, errors, last, file, inferred, prompt, real, claude,
          listed, shown, labels, ui>>

\* tui.ts: the context as created, before the first refresh
NoUi ==
  [modalClose |-> <<>>, focused |-> "projects", searchActive |-> FALSE,
   searchQuery |-> <<>>, done |-> FALSE, expandedSessionIndex |-> <<>>,
   listIndexToSessionIndex |-> <<>>, items |-> 0, selected |-> 0]

\* the Claude CLI is not installed
NoClaude == [candidates |-> <<>>, history |-> <<>>, files |-> <<>>]

\* tmux.ts getTmuxEnv(name, key): string | null
getTmuxEnv(name, key) == env[name][key]

\* ------------------------------------------------------------ reconciler
Put(f, k, v) == [x \in DOMAIN f \cup {k} |-> IF x = k THEN v ELSE f[x]]
Drop(f, K) == [x \in DOMAIN f \ K |-> f[x]]

PruneNothing(st, liveNames) == st

\* main-helpers.ts:118-120
PruneSessions(st, liveNames) ==
  [st EXCEPT !.sessions = Drop(st.sessions, DOMAIN st.sessions \ liveNames)]

\* main-helpers.ts:126
DeriveProjectId(name, projectPath) ==
  Coalesce(getTmuxEnv(name, "id"), computeProjectId(projectPath))

\* main-helpers.ts:130,148
DeriveKind(name) ==
  IF getTmuxEnv(name, "managed") = Some(<<"1">>) THEN "managed" ELSE "linked"

EnsureProjectOverwrite(projects, projectId, projectPath, createdAt) ==
  Put(projects, projectId,
      [id |-> projectId, path |-> projectPath, name |-> ProjectNameOf(projectPath),
       createdAt |-> createdAt, lastUsedAt |-> createdAt])

\* main-helpers.ts:133-140
EnsureProject(projects, projectId, projectPath, createdAt) ==
  IF projectId \in DOMAIN projects
  THEN projects
  ELSE Put(projects, projectId,
           [id |-> projectId, path |-> projectPath, name |-> ProjectNameOf(projectPath),
            createdAt |-> createdAt, lastUsedAt |-> createdAt])

\* main-helpers.ts:126-149, the recovery of an untracked session with a project path
RecoverUntracked(st, name, projectPath, now) ==
  LET projectId == DeriveProjectId(name, projectPath)
      cmdRaw == getTmuxEnv(name, "cmd")
      cmd == IF ~IsNull(cmdRaw) /\ Len(Trim(Val(cmdRaw))) > 0 THEN cmdRaw ELSE NULL
      createdAt == Coalesce(getTmuxEnv(name, "createdAt"), now)
  IN [projects |-> EnsureProject(st.projects, projectId, projectPath, createdAt),
      sessions |-> Put(st.sessions, name,
                       [name |-> name, projectId |-> projectId,
                        projectPath |-> projectPath, createdAt |-> createdAt,
                        command |-> cmd, kind |-> DeriveKind(name)])]

\* !value, for a string | null
Falsy(o) == IsNull(o) \/ Len(Val(o)) = 0

RecoverSessionNoSkip(st, name, now) ==
  IF Falsy(getTmuxEnv(name, "path")) THEN st
  ELSE RecoverUntracked(st, name, Val(getTmuxEnv(name, "path")), now)

RecoverSessionNoPathCheck(st, name, now) ==
  IF name \in DOMAIN st.sessions THEN st
  ELSE RecoverUntracked(st, name, Coalesce(getTmuxEnv(name, "path"), EmptyStr), now)

\* main-helpers.ts:122-150, one iteration of the loop over liveNames
RecoverSession(st, name, now) ==
  IF name \in DOMAIN st.sessions THEN st
  ELSE IF Falsy(getTmuxEnv(name, "path")) THEN st
  ELSE RecoverUntracked(st, name, Val(getTmuxEnv(name, "path")), now)

RECURSIVE RecoverFrom(_, _, _, _)
RecoverFrom(st, liveSeq, i, now) ==
  IF i > Len(liveSeq) THEN st
  ELSE RecoverFrom(RecoverSession(st, liveSeq[i], now), liveSeq, i + 1, now)

\* tmux.ts listTmuxSessions(): the names in the order tmux lists them, or a throw
Listings(S) == { [ok |-> TRUE, names |-> o] : o \in Orders(S) }
Failure == [ok |-> FALSE, names |-> <<>>]

reconcileEmptyOnFailure(st, listing, now) ==
  [threw |-> FALSE,
   state |-> RecoverFrom(PruneSessions(st, Range(listing.names)), listing.names, 1, now)]

\* main-helpers.ts reconcileStateWithTmux, given the outcome of listTmuxSessions()
\* on line 116; the result is [threw, state]
reconcileStateWithTmux(st, listing, now) ==
  IF ~listing.ok
  THEN [threw |-> TRUE, state |-> st]
  ELSE [threw |-> FALSE,
        state |-> RecoverFrom(PruneSessions(st, Range(listing.names)), listing.names, 1, now)]

\* --------------------------------------------------------- state helpers
RECURSIVE SortNewestFirst(_)
\* records of S ordered by createdAt, newest first
SortNewestFirst(S) ==
  IF S = {} THEN <<>>
  ELSE LET m == CHOOSE r \in S : \A q \in S : q.createdAt <= r.createdAt
       IN <<m>> \o SortNewestFirst(S \ {m})

\* state.ts listProjects
listProjects(st) == SortNewestFirst({ st.projects[i] : i \in DOMAIN st.projects })

\* state.ts listSessionsForProject
listSessionsForProject(st, projectId) ==
  SortNewestFirst({ st.sessions[n] : n \in { m \in DOMAIN st.sessions : st.sessions[m].projectId = projectId } })

Min(a, b) == IF a < b THEN a ELSE b
Max(a, b) == IF a > b THEN a ELSE b

\* arr[idx] ?? null, with 0-based idx
At(arr, idx) == IF idx >= 0 /\ idx < Len(arr) THEN Some(arr[idx + 1]) ELSE NULL

\* -------------------------------------------------------------- refresh
\* tui-refresh.ts refreshSessionsForSelectedProject
refreshSessionsForSelectedProject(st, c) ==
  IF IsNull(c.selectedProject)
  THEN [c EXCEPT !.sessions = <<>>]
  ELSE [c EXCEPT !.sessions = listSessionsForProject(st, Val(c.selectedProject).id)]

\* tui-refresh.ts refreshResMode
refreshResMode(st, c) ==
  LET projects == listProjects(st)
      idx == Min(c.selectedProjectIndex, Max(0, Len(projects) - 1))
  IN refreshSessionsForSelectedProject(st,
       [c EXCEPT !.projects = projects,
                 !.selectedProjectIndex = idx,
                 !.selectedProject = At(projects, idx)])

refreshTmuxModeNoClamp(c, names) == [c EXCEPT !.tmuxSessions = names]

\* tui-refresh.ts refreshTmuxMode
refreshTmuxMode(c, names) ==
  [c EXCEPT !.tmuxSessions = names,
            !.selectedTmuxIndex = Min(c.selectedTmuxIndex, Max(0, Len(names) - 1))]

\* main.ts refreshLiveSessions: the reconciler run of a refresh
refreshLiveSessions(st, listing, now) == reconcileStateWithTmux(st, listing, now)

\* tui-refresh.ts refresh; the result is [state, ctx, errors]
refresh(st, c, errs, listing, now) ==
  LET r == refreshLiveSessions(st, listing, now) IN
  IF r.threw
  THEN [state |-> r.state, ctx |-> c, errors |-> errs + 1]
  ELSE [state |-> r.state,
        ctx |-> IF c.mode = "tmux" THEN refreshTmuxMode(c, listing.names)
                ELSE refreshResMode(r.state, c),
        errors |-> errs]

\* the outcomes of listTmuxSessions() now; it may throw only while another error
\* box can still be opened
ListingsNow(S, errs) == Listings(S) \cup (IF errs < MaxErrorBoxes THEN {Failure} ELSE {})

\* --------------------------------------------- sessions list (tui-session-display.ts)
\* the number of lines generateExpandedSessionLines gives: the header and the tmux
\* name, and whatever else is known of the session
MaxExpandedLines == 3

ExpandedLineCounts == 2..MaxExpandedLines

RowsOfOneEach(i, expanded, lines) == <<i>>

\* tui-session-display.ts:181-229, what one iteration pushes on
\* listIndexToSessionIndex: i once for each item of session i
RowsOf(i, expanded, lines) ==
  IF expanded = Some(i) THEN [k \in 1..lines |-> i] ELSE <<i>>

RECURSIVE RowsFrom(_, _, _, _)
RowsFrom(n, expanded, lines, i) ==
  IF i >= n THEN <<>>
  ELSE RowsOf(i, expanded, lines) \o RowsFrom(n, expanded, lines, i + 1)

RECURSIVE ItemsFrom(_, _, _, _)
\* the number of items pushed for the sessions i .. n - 1
ItemsFrom(n, expanded, lines, i) ==
  IF i >= n THEN 0
  ELSE (IF expanded = Some(i) THEN lines ELSE 1) + ItemsFrom(n, expanded, lines, i + 1)

\* tui-session-display.ts generateSessionItems: [listIndexToSessionIndex, items]
generateSessionItems(c, u, lines) ==
  IF Len(c.sessions) = 0
  THEN [listIndexToSessionIndex |-> <<-1>>, items |-> 1]
  ELSE [listIndexToSessionIndex |->
          RowsFrom(Len(c.sessions), u.expandedSessionIndex, lines, 0),
        items |-> ItemsFrom(Len(c.sessions), u.expandedSessionIndex, lines, 0)]

\* blessed List.select(index) on a list of n items: the selected row
ListSelect(n, index) ==
  IF index < 0 THEN 0 ELSE IF index >= n THEN n - 1 ELSE index

\* tui-session-display.ts updateSessionDisplay
updateSessionDisplay(c, u, lines) ==
  LET selectedListIdx == u.selected
      g == generateSessionItems(c, u, lines)
  IN [u EXCEPT !.listIndexToSessionIndex = g.listIndexToSessionIndex,
               !.items = g.items,
               !.selected = IF u.focused = "sessions"
                            THEN ListSelect(g.items, selectedListIdx)
                            ELSE -1]

\* tui-session-display.ts getSelectedSessionIndex
getSelectedSessionIndex(c, u) ==
  IF Len(c.sessions) = 0 THEN NULL
  ELSE LET sessionIdx == At(u.listIndexToSessionIndex, u.selected)
       IN IF IsNull(sessionIdx) \/ Val(sessionIdx) < 0 THEN NULL ELSE sessionIdx

\* tui-refresh.ts refreshSessionsForSelectedProject, what it does to the sessions
\* list once c.sessions is set
refreshSessionsList(c, u) ==
  LET v == [u EXCEPT !.expandedSessionIndex = NULL]
  IN IF IsNull(c.selectedProject) \/ Len(c.sessions) = 0
     THEN [v EXCEPT !.listIndexToSessionIndex = <<-1>>, !.items = 1, !.selected = 0]
     ELSE updateSessionDisplay(c, v, MaxExpandedLines)

\* array.findIndex(x => x === value), -1 when there is none
RECURSIVE FindIndexFrom(_, _, _)
FindIndexFrom(arr, value, i) ==
  IF i > Len(arr) THEN -1
  ELSE IF arr[i] = value THEN i - 1
  ELSE FindIndexFrom(arr, value, i + 1)

\* tui-actions-res.ts toggleExpandedSession
toggleExpandedSession(c, u, lines) ==
  IF c.mode # "res" \/ u.focused # "sessions" THEN u
  ELSE IF Len(c.sessions) = 0 THEN u
  ELSE LET sessionIdx == getSelectedSessionIndex(c, u)
       IN IF IsNull(sessionIdx) THEN u
          ELSE LET listIdx == FindIndexFrom(u.listIndexToSessionIndex, Val(sessionIdx), 1)
               IN updateSessionDisplay(c,
                    [u EXCEPT !.expandedSessionIndex =
                                 IF u.expandedSessionIndex = sessionIdx THEN NULL
                                 ELSE sessionIdx,
                              !.selected = IF listIdx >= 0 THEN ListSelect(u.items, listIdx)
                                           ELSE u.selected],
                    lines)

\* tui-refresh.ts refresh, what it does to the sessions list
refreshUi(st, c, u, listing, now) ==
  LET r == refreshLiveSessions(st, listing, now)
  IN IF r.threw \/ c.mode = "tmux" THEN u
     ELSE refreshSessionsList(refreshResMode(r.state, c), u)

BlockedNever(u) == FALSE

\* tui-bindings.ts, `if (ctx.modalClose) return;` at the head of a screen key handler
Blocked(u) == ~IsNull(u.modalClose)

Record(op, ok) == [op |-> op, ok |-> ok, pre |-> state]

\* the record of a key whose handler returned at once because a modal is open
RecordIgnored(op) == [op |-> op, ok |-> FALSE, pre |-> state, ignored |-> TRUE]

\* the record of an answered deleteSelectedProject: also the project it was about
RecordDelete(op, ok, project) ==
  [op |-> op, ok |-> ok, pre |-> state, project |-> project]

ApplyRefresh(st, c, u, errs, listing, now) ==
  LET r == refresh(st, c, errs, listing, now)
  IN /\ state' = r.state
     /\ ctx' = r.ctx
     /\ errors' = r.errors
     /\ ui' = refreshUi(st, c, u, listing, now)

\* ------------------------------------------------------------- actions
\* tmux new-session
TmuxNewSession ==
  \E name \in SessionNames \ live :
    /\ live' = live \cup {name}
    /\ last' = Record("spawn", TRUE)
    /\ UNCHANGED <<state, env, ctx, pending, errors, file, inferred, prompt, real, claude, listed, shown, labels, ui>>

\* tmux kill-session from outside, or the session's shell exits
TmuxKillSession ==
  \E name \in live :
    /\ live' = live \ {name}
    /\ last' = Record("kill", TRUE)
    /\ UNCHANGED <<state, env, ctx, pending, errors, file, inferred, prompt, real, claude, listed, shown, labels, ui>>

\* tui-bindings.ts:68-71, key "r"
KeyRefresh ==
  /\ ~ui.done
  /\ IF Blocked(ui)
     THEN /\ last' = RecordIgnored("refresh")
          /\ UNCHANGED <<state, ctx, errors, ui>>
     ELSE \E listing \in ListingsNow(live, errors), now \in Times :
            /\ ApplyRefresh(state, ctx, ui, errors, listing, now)
            /\ last' = Record("refresh", listing.ok)
  /\ UNCHANGED <<live, env, pending, file, inferred, prompt, real, claude, listed, shown, labels>>

\* tui.ts setMode, keys "1", "2", "t", "m"
SetMode ==
  \E nextMode \in {"res", "tmux"} :
    /\ ~ui.done
    /\ IF Blocked(ui)
       THEN /\ last' = RecordIgnored("setMode")
            /\ UNCHANGED <<state, ctx, errors, ui>>
       ELSE \E listing \in ListingsNow(live, errors), now \in Times :
              /\ ApplyRefresh(state, [ctx EXCEPT !.mode = nextMode], ui, errors, listing, now)
              /\ last' = Record("setMode", listing.ok)
    /\ UNCHANGED <<live, env, pending, file, inferred, prompt, real, claude, listed, shown, labels>>

\* tui-modals.ts showError close(): Enter/Esc on an error box
CloseError ==
  \E listing \in ListingsNow(live, errors - 1), now \in Times :
    /\ errors > 0
    /\ ~ui.done
    /\ ApplyRefresh(state, ctx, ui, errors - 1, listing, now)
    /\ last' = Record("closeError", listing.ok)
    /\ UNCHANGED <<live, env, pending, file, inferred, prompt, real, claude, listed, shown, labels>>

\* tui-bindings.ts:129-134, projectsBox "select item"
SelectProject ==
  \E idx \in 0..Max(0, Len(ctx.projects) - 1) :
    /\ ctx.mode = "res"
    /\ ~ui.done
    /\ ctx' = refreshSessionsForSelectedProject(state,
                [ctx EXCEPT !.selectedProjectIndex = idx,
                            !.selectedProject = At(ctx.projects, idx)])
    /\ ui' = refreshSessionsList(ctx', ui)
    /\ last' = Record("select", TRUE)
    /\ UNCHANGED <<state, live, env, pending, errors, file, inferred, prompt, real, claude, listed, shown, labels>>

\* tui-bindings.ts:143-151, tmuxBox "select item" in tmux mode; the list shows one
\* placeholder row when there is no session
SelectTmux ==
  \E idx \in 0..Max(0, Len(ctx.tmuxSessions) - 1) :
    /\ ctx.mode = "tmux"
    /\ ~ui.done
    /\ ctx' = [ctx EXCEPT !.selectedTmuxIndex = idx]
    /\ last' = Record("selectTmux", TRUE)
    /\ UNCHANGED <<state, live, env, pending, errors, file, inferred, prompt, real, claude, listed, shown, labels, ui>>

\* tui-projects.ts deleteSelectedProject up to the confirm box, key "x"
KeyDeleteProject ==
  /\ ~ui.done
  /\ IF Blocked(ui)
     THEN /\ pending' = pending
          /\ last' = RecordIgnored("x")
     ELSE /\ ctx.mode = "res"
          /\ ~IsNull(ctx.selectedProject)
          /\ pending' = pending \cup {Val(ctx.selectedProject)}
          /\ last' = Record("x", TRUE)
  /\ UNCHANGED <<state, live, env, ctx, errors, file, inferred, prompt, real, claude, listed, shown, labels, ui>>

\* main.ts deleteSession action: kills the tmux session and removes its record;
\* w is [state, live]
deleteSession(w, name) ==
  [state |-> [w.state EXCEPT !.sessions = Drop(w.state.sessions, {name})],
   live |-> w.live \ {name}]

DeleteSessionsSkipped(w, sessions, n) == w

RECURSIVE DeleteSessions(_, _, _)
\* tui-projects.ts:104, the first n iterations of the loop
DeleteSessions(w, sessions, n) ==
  IF n = 0 THEN w
  ELSE deleteSession(DeleteSessions(w, sessions, n - 1), sessions[n].name)

DeleteProjectKeepEntry(st, projectId) == st

\* tui-projects.ts:105
DeleteProjectEntry(st, projectId) ==
  [st EXCEPT !.projects = Drop(st.projects, {projectId})]

\* tui-projects.ts:100-112, the confirm box of deleteSelectedProject is answered.
\* done is the number of deleteSession calls that return before one throws.
AnswerDeleteProject ==
  \E project \in pending, answer \in BOOLEAN, now \in Times :
    LET projectSessions == listSessionsForProject(state, project.id) IN
    \E done \in 0..Len(projectSessions) :
      LET w == DeleteSessions([state |-> state, live |-> live], projectSessions, done)
          threw == done < Len(projectSessions)
      IN /\ pending' = pending \ {project}
         /\ ~ui.done
         /\ UNCHANGED <<env, file, inferred, prompt, real, claude, listed, shown, labels>>
         /\ IF ~answer
            THEN /\ done = 0
                 /\ live' = live
                 /\ \E listing \in ListingsNow(live, errors) :
                      /\ ApplyRefresh(state, ctx, ui, errors, listing, now)
                      /\ last' = Record("cancelDelete", listing.ok)
            ELSE IF threw
            THEN /\ errors < MaxErrorBoxes
                 /\ state' = w.state
                 /\ live' = w.live
                 /\ errors' = errors + 1
                 /\ ctx' = ctx
                 /\ ui' = ui
                 /\ last' = RecordDelete("deleteProjectThrew", TRUE, project)
            ELSE /\ live' = w.live
                 /\ \E listing \in ListingsNow(w.live, errors) :
                      /\ ApplyRefresh(DeleteProjectEntry(w.state, project.id),
                                      [ctx EXCEPT !.selectedProjectIndex =
                                                     Max(0, ctx.selectedProjectIndex - 1)],
                                      ui, errors, listing, now)
                      /\ last' = RecordDelete("deleteProject", listing.ok, project)

\* ------------------------------------------- keys, modals and the search
\* tui-bindings.ts:33-43, key "tab"
KeyTab ==
  \E lines \in ExpandedLineCounts :
    /\ ~ui.done
    /\ IF Blocked(ui)
       THEN /\ last' = RecordIgnored("tab")
            /\ ui' = ui
       ELSE /\ last' = Record("tab", TRUE)
            /\ ui' = IF ctx.mode # "res" THEN ui
                     ELSE LET v == [ui EXCEPT !.focused = IF ui.focused = "projects"
                                                          THEN "sessions" ELSE "projects"]
                          IN IF Len(ctx.sessions) > 0
                             THEN updateSessionDisplay(ctx, v, lines) ELSE v
    /\ UNCHANGED <<state, live, env, ctx, pending, errors, file, inferred, prompt, real, claude, listed, shown, labels>>

\* a list of the main screen has the keyboard: no modal and no search box has it
ListHasFocus == IsNull(ui.modalClose) /\ ~ui.searchActive /\ ~ui.done

\* tui-bindings.ts:159-167, projectsBox key "enter"
ProjectsEnter ==
  \E lines \in ExpandedLineCounts :
    /\ ListHasFocus
    /\ ctx.mode = "res"
    /\ ui.focused = "projects"
    /\ ui' = LET v == [ui EXCEPT !.focused = "sessions"]
             IN IF Len(ctx.sessions) > 0 THEN updateSessionDisplay(ctx, v, lines) ELSE v
    /\ last' = Record("enter", TRUE)
    /\ UNCHANGED <<state, live, env, ctx, pending, errors, file, inferred, prompt, real, claude, listed, shown, labels>>

\* tui-bindings.ts:136-141, sessionsBox "select item": the selection moved to row idx
SelectSessionRow ==
  \E idx \in 0..(ui.items - 1), lines \in ExpandedLineCounts :
    /\ ListHasFocus
    /\ ctx.mode = "res"
    /\ ui.focused = "sessions"
    /\ ui' = LET v == [ui EXCEPT !.selected = idx]
             IN IF ctx.mode = "res" /\ Len(ctx.sessions) > 0
                THEN updateSessionDisplay(ctx, v, lines) ELSE v
    /\ last' = Record("selectRow", TRUE)
    /\ UNCHANGED <<state, live, env, ctx, pending, errors, file, inferred, prompt, real, claude, listed, shown, labels>>

\* tui-bindings.ts:81-85, key "p"
KeyToggleExpand ==
  \E lines \in ExpandedLineCounts :
    /\ ~ui.done
    /\ IF Blocked(ui)
       THEN /\ last' = RecordIgnored("p")
            /\ ui' = ui
       ELSE /\ last' = Record("p", TRUE)
            /\ ui' = IF ctx.mode # "res" \/ ui.focused # "sessions" THEN ui
                     ELSE toggleExpandedSession(ctx, ui, lines)
    /\ UNCHANGED <<state, live, env, ctx, pending, errors, file, inferred, prompt, real, claude, listed, shown, labels>>

\* tui-bindings.ts:72-75, key "?", and tui-modals.ts showHelp
ShowHelp ==
  /\ ~ui.done
  /\ IF Blocked(ui)
     THEN /\ last' = RecordIgnored("help")
          /\ ui' = ui
     ELSE /\ last' = Record("help", TRUE)
          /\ ui' = [ui EXCEPT !.modalClose = Some("help")]
  /\ UNCHANGED <<state, live, env, ctx, pending, errors, file, inferred, prompt, real, claude, listed, shown, labels>>

\* tui-bindings.ts:92-99, key "c" in tmux mode: captureSelectedTmuxSession opens the
\* text viewer on the pane of the selected session, or an error box when tmux
\* cannot capture it
KeyCapture ==
  /\ ~ui.done
  /\ Blocked(ui) \/ ctx.mode = "tmux"
  /\ IF Blocked(ui)
     THEN /\ last' = RecordIgnored("c")
          /\ UNCHANGED <<ui, errors>>
     ELSE LET sess == At(ctx.tmuxSessions, ctx.selectedTmuxIndex)
          IN /\ last' = Record("c", TRUE)
             /\ IF IsNull(sess) THEN UNCHANGED <<ui, errors>>
                ELSE IF Val(sess) \in live
                THEN /\ ui' = [ui EXCEPT !.modalClose = Some("viewer")]
                     /\ errors' = errors
                ELSE /\ errors < MaxErrorBoxes
                     /\ errors' = errors + 1
                     /\ ui' = ui
  /\ UNCHANGED <<state, live, env, ctx, pending, file, inferred, prompt, real, claude, listed, shown, labels>>

\* tui-bindings.ts:106-111, key "l" in res mode: linkExistingSessionToSelectedProject
\* opens a picker of the tmux sessions without a record
KeyLink ==
  /\ ~ui.done
  /\ Blocked(ui) \/ ctx.mode = "res"
  /\ IF Blocked(ui)
     THEN /\ last' = RecordIgnored("l")
          /\ ui' = ui
     ELSE /\ last' = Record("l", TRUE)
          /\ ui' = IF IsNull(ctx.selectedProject) \/ live \subseteq DOMAIN state.sessions
                   THEN ui
                   ELSE [ui EXCEPT !.modalClose = Some("picker")]
  /\ UNCHANGED <<state, live, env, ctx, pending, errors, file, inferred, prompt, real, claude, listed, shown, labels>>

\* the close() or cancel() a modal registers as ctx.modalClose: the modal is gone
\* and the screen refreshed
CloseModal(op) ==
  \E listing \in ListingsNow(live, errors), now \in Times :
    /\ ApplyRefresh(state, ctx, [ui EXCEPT !.modalClose = NULL], errors, listing, now)
    /\ last' = Record(op, listing.ok)

\* tui-modals.ts:213,329 and tui-actions-res.ts:169, key "escape" on the modal
ModalEscape ==
  /\ ~ui.done
  /\ ~IsNull(ui.modalClose)
  /\ CloseModal("escape")
  /\ UNCHANGED <<live, env, pending, file, inferred, prompt, real, claude, listed, shown, labels>>

\* tui-bindings.ts:29-32, key "q"
KeyQ ==
  /\ ~ui.done
  /\ IF ~IsNull(ui.modalClose)
     THEN CloseModal("q")
     ELSE /\ ui' = [ui EXCEPT !.done = TRUE]
          /\ last' = Record("q", TRUE)
          /\ UNCHANGED <<state, ctx, errors>>
  /\ UNCHANGED <<live, env, pending, file, inferred, prompt, real, claude, listed, shown, labels>>

\* tui-bindings.ts:28, key "C-c"
KeyCtrlC ==
  /\ ~ui.done
  /\ ui' = [ui EXCEPT !.done = TRUE]
  /\ last' = Record("C-c", TRUE)
  /\ UNCHANGED <<state, live, env, ctx, pending, errors, file, inferred, prompt, real, claude, listed, shown, labels>>

\* tui-bindings.ts:76-80, key "/", and tui-search.ts startSearch
KeySearch ==
  /\ ~ui.done
  /\ IF Blocked(ui)
     THEN /\ last' = RecordIgnored("search")
          /\ ui' = ui
     ELSE /\ last' = Record("search", TRUE)
          /\ ui' = IF ui.searchActive THEN ui
                   ELSE [ui EXCEPT !.searchActive = TRUE, !.searchQuery = <<>>]
  /\ UNCHANGED <<state, live, env, ctx, pending, errors, file, inferred, prompt, real, claude, listed, shown, labels>>

SearchQueries == {<<>>, <<"a">>}

\* tui-search.ts:85-108, a key typed into the search box: the query is now query
\* and its first match in the searched list is at matchIdx, -1 when there is none
SearchType ==
  \E query \in SearchQueries, lines \in ExpandedLineCounts :
    LET searched == IF ctx.mode = "tmux" THEN ctx.tmuxSessions
                    ELSE IF ui.focused = "projects" THEN ctx.projects
                    ELSE ctx.sessions
    IN \E matchIdx \in (-1)..(Len(searched) - 1) :
         LET u == [ui EXCEPT !.searchQuery = query] IN
         /\ ui.searchActive
         /\ ~ui.done
         /\ Len(query) = 0 => matchIdx = -1
         /\ last' = Record("type", TRUE)
         /\ IF matchIdx < 0 THEN ctx' = ctx /\ ui' = u
            ELSE IF ctx.mode = "res" /\ ui.focused = "projects"
            THEN /\ ctx' = refreshSessionsForSelectedProject(state,
                             [ctx EXCEPT !.selectedProjectIndex = matchIdx,
                                         !.selectedProject = At(ctx.projects, matchIdx)])
                 /\ ui' = refreshSessionsList(ctx', u)
            ELSE IF ctx.mode = "tmux"
            THEN /\ ctx' = [ctx EXCEPT !.selectedTmuxIndex = matchIdx]
                 /\ ui' = u
            ELSE /\ ctx' = ctx
                 /\ ui' = updateSessionDisplay(ctx,
                            [u EXCEPT !.selected = ListSelect(u.items, matchIdx)], lines)
         /\ UNCHANGED <<state, live, env, pending, errors, file, inferred, prompt, real, claude, listed, shown, labels>>

\* tui-search.ts:112-124, key "escape" or "enter" in the search box
SearchClose ==
  /\ ui.searchActive
  /\ ~ui.done
  /\ ui' = [ui EXCEPT !.searchActive = FALSE, !.searchQuery = <<>>]
  /\ last' = Record("searchClose", TRUE)
  /\ UNCHANGED <<state, live, env, ctx, pending, errors, file, inferred, prompt, real, claude, listed, shown, labels>>

\* ------------------------------------------------------- specification
EmptyState == [projects |-> <<>>, sessions |-> <<>>]

InitWith(envs) ==
  /\ state = EmptyState
  /\ live = {}
  /\ env \in [SessionNames -> envs]
  /\ ctx = [mode |-> "res", projects |-> <<>>, selectedProjectIndex |-> 0,
            selectedProject |-> NULL, sessions |-> <<>>, tmuxSessions |-> <<>>,
            selectedTmuxIndex |-> 0]
  /\ pending = {}
  /\ errors = 0
  /\ last = [op |-> "init", ok |-> TRUE, pre |-> EmptyState]
  /\ file = [readable |-> FALSE, lines |-> <<>>]
  /\ inferred = NULL
  /\ prompt = <<>>
  /\ real = NULL
  /\ claude = NoClaude
  /\ listed = NULL
  /\ shown = <<>>
  /\ labels = NULL
  /\ ui = NoUi

\* the reconciler under every provenance: tmux changes and refreshes
Init == InitWith(EnvChoices)

Next ==
  \/ TmuxNewSession
  \/ TmuxKillSession
  \/ KeyRefresh
  \/ CloseError

Spec == Init /\ [][Next]_vars

\* refreshes in both modes
InitTui == InitWith(TuiEnvChoices)

NextModes ==
  \/ TmuxNewSession
  \/ TmuxKillSession
  \/ KeyRefresh
  \/ CloseError
  \/ SetMode

SpecModes == InitTui /\ [][NextModes]_vars

\* refreshes and project deletions
NextProjects ==
  \/ TmuxNewSession
  \/ TmuxKillSession
  \/ KeyRefresh
  \/ CloseError
  \/ SelectProject
  \/ KeyDeleteProject
  \/ AnswerDeleteProject

SpecProjects == InitTui /\ [][NextProjects]_vars

\* refreshes, mode changes, selections and project deletions
NextSelect ==
  \/ TmuxNewSession
  \/ TmuxKillSession
  \/ KeyRefresh
  \/ CloseError
  \/ SetMode
  \/ SelectProject
  \/ SelectTmux
  \/ KeyDeleteProject
  \/ AnswerDeleteProject

SpecSelect == InitTui /\ [][NextSelect]_vars

\* sessions of one project
InitUi ==
  InitWith({[path |-> Some(PathAlpha), id |-> Some(IdP1), cmd |-> Some(CmdCodex),
             createdAt |-> Some(0), managed |-> Some(<<"1">>)]})

\* the screen keys, the modals and the search
NextModal ==
  \/ TmuxNewSession
  \/ TmuxKillSession
  \/ KeyRefresh
  \/ SetMode
  \/ KeyTab
  \/ ShowHelp
  \/ KeyCapture
  \/ KeyLink
  \/ ModalEscape
  \/ KeyQ
  \/ KeyCtrlC
  \/ KeySearch
  \/ SearchClose

SpecModal == InitUi /\ [][NextModal]_vars

\* the sessions list of res mode, and the search
NextPanel ==
  \/ TmuxNewSession
  \/ TmuxKillSession
  \/ KeyRefresh
  \/ CloseError
  \/ SelectProject
  \/ KeyTab
  \/ ProjectsEnter
  \/ SelectSessionRow
  \/ KeyToggleExpand
  \/ KeySearch
  \/ SearchType
  \/ SearchClose

SpecPanel == InitTui /\ [][NextPanel]_vars

\* ------------------------------------------- activity inference (claude.ts)
\* A transcript line is [json, type, message, content]: json is "blank" for a line
\* of whitespace, "invalid" for text JSON.parse rejects, "value" for JSON that is
\* no object and "object" otherwise; type is parsed.type ("" when it is no string);
\* message tells whether parsed.message is an object; content is parsed.message.content
\* as [kind, text, items]: a string (its text), an array (the types of its items) or
\* anything else.
StringContent(text) == [kind |-> "string", text |-> text, items |-> <<>>]
ArrayContent(items) == [kind |-> "array", text |-> <<>>, items |-> items]
OtherContent == [kind |-> "other", text |-> <<>>, items |-> <<>>]

Turn(type, content) == [json |-> "object", type |-> type, message |-> TRUE, content |-> content]

BlankLine == [json |-> "blank", type |-> "", message |-> FALSE, content |-> OtherContent]
InvalidLine == [json |-> "invalid", type |-> "", message |-> FALSE, content |-> OtherContent]
ValueLine == [json |-> "value", type |-> "", message |-> FALSE, content |-> OtherContent]
SummaryLine == [json |-> "object", type |-> "summary", message |-> FALSE, content |-> OtherContent]
UserNoMessage == [json |-> "object", type |-> "user", message |-> FALSE, content |-> OtherContent]

UserPlain == Turn("user", StringContent(<<"deploy the service">>))
AssistantText == Turn("assistant", ArrayContent(<<"text">>))

\* the lines a transcript is padded with
Fillers == {UserPlain, AssistantText, InvalidLine}

LineKinds ==
  { BlankLine, InvalidLine, ValueLine, SummaryLine, UserNoMessage, UserPlain, AssistantText,
    Turn("user", StringContent(<<"/exit">>)),
    Turn("user", StringContent(<<"ok, ", "Goodbye!">>)),
    Turn("user", StringContent(<<"<command-name>", "/exit", "</command-name>">>)),
    Turn("user", StringContent(<<"<bash-input>", "ls", "</bash-input>">>)),
    Turn("user", ArrayContent(<<"tool_result">>)),
    Turn("user", ArrayContent(<<"text">>)),
    Turn("user", OtherContent),
    Turn("assistant", ArrayContent(<<"text", "tool_use">>)),
    Turn("assistant", ArrayContent(<<"thinking">>)),
    Turn("assistant", StringContent(<<"Goodbye!">>)),
    Turn("assistant", OtherContent) }

\* transcripts of n lines: fillers, with up to two lines replaced
BuildLines(n, filler, p1, s1, p2, s2) ==
  [i \in 1..n |-> IF i = p1 THEN s1 ELSE IF i = p2 THEN s2 ELSE filler]

Transcripts ==
  { BuildLines(n, filler, p1, s1, p2, s2) :
      n \in 0..MaxLines, filler \in Fillers,
      p1 \in 0..MaxLines, s1 \in LineKinds, p2 \in 0..MaxLines, s2 \in LineKinds }

Files ==
  { [readable |-> TRUE, lines |-> t] : t \in Transcripts }
    \cup { [readable |-> FALSE, lines |-> <<>>] }

\* claude.ts:85-93
localCommandMarkers ==
  { "<bash-stdout>", "<bash-input>", "<local-command-caveat>", "<local-command-stdout>",
    "<command-name>", "<command-message>", "<command-args>" }

\* String.prototype.includes, for a phrase that is one symbol
Includes(text, phrase) == \E i \in 1..Len(text) : text[i] = phrase

\* claude.ts:95-96
isLocalCommandContent(text) == \E marker \in localCommandMarkers : Includes(text, marker)

\* claude.ts:84: tail.split("\n").filter((l) => l.trim())
TailLines(f) == SelectSeq(f.lines, LAMBDA l : l.json # "blank")

\* claude.ts:101-102 / 119-120: safeJsonParse(line) gave an object
ParsedObject(l) == l.json = "object"

\* claude.ts:104 / 123 / 137
IsTurnOf(l, role) == l.type = role /\ l.message

\* claude.ts:107-111
IsExitContent(content) ==
  /\ content.kind = "string"
  /\ ~isLocalCommandContent(content.text)
  /\ (Includes(content.text, "/exit") \/ Includes(content.text, "Goodbye!"))

\* claude.ts:100: userMsgCount < 5
ExitScanLimit == 5

RECURSIVE ExitScanNoLimit(_, _, _)
ExitScanNoLimit(lines, i, userMsgCount) ==
  IF i < 1 THEN FALSE
  ELSE IF ParsedObject(lines[i]) /\ IsTurnOf(lines[i], "user")
  THEN IsExitContent(lines[i].content) \/ ExitScanNoLimit(lines, i - 1, userMsgCount + 1)
  ELSE ExitScanNoLimit(lines, i - 1, userMsgCount)

RECURSIVE ExitScan(_, _, _)
\* claude.ts:98-115, the first pass from line i (1-based) downwards
ExitScan(lines, i, userMsgCount) ==
  IF i < 1 \/ userMsgCount >= ExitScanLimit THEN FALSE
  ELSE IF ~ParsedObject(lines[i]) THEN ExitScan(lines, i - 1, userMsgCount)
  ELSE IF IsTurnOf(lines[i], "user")
  THEN IF IsExitContent(lines[i].content) THEN TRUE
       ELSE ExitScan(lines, i - 1, userMsgCount + 1)
  ELSE ExitScan(lines, i - 1, userMsgCount)

\* claude.ts:123-135
ClassifyUserTurn(content) ==
  IF content.kind = "array" /\ \E k \in 1..Len(content.items) : content.items[k] = "tool_result"
  THEN "user"
  ELSE IF content.kind = "string" /\ isLocalCommandContent(content.text)
  THEN "assistant"
  ELSE "user"

ClassifyAssistantTurnPlain(content) == "assistant"

\* claude.ts:137-145
ClassifyAssistantTurn(content) ==
  IF content.kind = "array"
     /\ \E k \in 1..Len(content.items) : content.items[k] \in {"tool_use", "thinking"}
  THEN "user"
  ELSE "assistant"

RECURSIVE LastTurnScanByRole(_, _)
LastTurnScanByRole(lines, i) ==
  IF i < 1 THEN "undefined"
  ELSE IF ParsedObject(lines[i]) /\ IsTurnOf(lines[i], "user") THEN "user"
  ELSE IF ParsedObject(lines[i]) /\ IsTurnOf(lines[i], "assistant") THEN "assistant"
  ELSE LastTurnScanByRole(lines, i - 1)

RECURSIVE LastTurnScanNoSkip(_, _)
LastTurnScanNoSkip(lines, i) ==
  IF i < 1 THEN "undefined"
  ELSE IF ~ParsedObject(lines[i]) THEN "undefined"
  ELSE IF IsTurnOf(lines[i], "user") THEN ClassifyUserTurn(lines[i].content)
  ELSE IF IsTurnOf(lines[i], "assistant") THEN ClassifyAssistantTurn(lines[i].content)
  ELSE LastTurnScanNoSkip(lines, i - 1)

RECURSIVE LastTurnScan(_, _)
\* claude.ts:117-146, the second pass from line i (1-based) downwards
LastTurnScan(lines, i) ==
  IF i < 1 THEN "undefined"
  ELSE IF ~ParsedObject(lines[i]) THEN LastTurnScan(lines, i - 1)
  ELSE IF IsTurnOf(lines[i], "user") THEN ClassifyUserTurn(lines[i].content)
  ELSE IF IsTurnOf(lines[i], "assistant") THEN ClassifyAssistantTurn(lines[i].content)
  ELSE LastTurnScan(lines, i - 1)

\* claude.ts:68-79 readFileTail: statSync, openSync or readSync may throw
readFileTail(f) == [threw |-> ~f.readable, lines |-> f.lines]

\* claude.ts:81-151 getLastMessageType; the catch at 147-149 turns a throw into undefined
getLastMessageType(f) ==
  IF readFileTail(f).threw THEN "undefined"
  ELSE LET lines == TailLines(f) IN
       IF ExitScan(lines, Len(lines), 0) THEN "exited"
       ELSE LastTurnScan(lines, Len(lines))

\* claude.ts:305, listClaudeSessions calls getLastMessageType(sessionFile)
InferActivity ==
  /\ IsNull(inferred)
  /\ inferred' = Some(getLastMessageType(file))
  /\ UNCHANGED <<file, tvars, pvars, cvars, lvars, ui>>

InitInfer ==
  /\ state = EmptyState
  /\ live = {}
  /\ env \in [SessionNames -> {CHOOSE e \in TuiEnvChoices : IsNull(e.path) /\ IsNull(e.id)}]
  /\ ctx = [mode |-> "res", projects |-> <<>>, selectedProjectIndex |-> 0,
            selectedProject |-> NULL, sessions |-> <<>>, tmuxSessions |-> <<>>,
            selectedTmuxIndex |-> 0]
  /\ pending = {}
  /\ errors = 0
  /\ last = [op |-> "init", ok |-> TRUE, pre |-> EmptyState]
  /\ file \in Files
  /\ inferred = NULL
  /\ prompt = <<>>
  /\ real = NULL
  /\ claude = NoClaude
  /\ listed = NULL
  /\ shown = <<>>
  /\ labels = NULL
  /\ ui = NoUi

NextInfer ==
  \/ InferActivity

SpecInfer == InitInfer /\ [][NextInfer]_vars

\* ------------------------------------------------ real-prompt filter (claude.ts)
\* A prompt is a sequence of characters; " " stands for any white space.
PromptChars == {" ", "!", "/", "a"}

RECURSIVE Strings(_, _)
\* the strings over an alphabet of at most n characters
Strings(chars, n) ==
  IF n = 0 THEN {<<>>}
  ELSE LET shorter == Strings(chars, n - 1)
       IN shorter \cup {Append(t, c) : t \in {u \in shorter : Len(u) = n - 1}, c \in chars}

Prompts == Strings(PromptChars, MaxPromptLen)

RECURSIVE FirstToken(_)
\* trimmed.split(/\s+/)[0], for a string that does not start with white space
FirstToken(t) ==
  IF Len(t) = 0 \/ t[1] = " " THEN <<>> ELSE <<t[1]>> \o FirstToken(Tail(t))

StartsWith(t, c) == Len(t) > 0 /\ t[1] = c

isRealPromptNoBang(text) ==
  LET trimmed == Trim(text)
      first == FirstToken(trimmed)
  IN /\ Len(trimmed) > 0
     /\ ~(StartsWith(first, "/") /\ Len(first) > 1 /\ ~Includes(Tail(first), "/"))

\* claude.ts:32-43
isRealPrompt(text) ==
  LET trimmed == Trim(text)
      first == FirstToken(trimmed)
  IN IF Len(trimmed) = 0 THEN FALSE
     ELSE IF StartsWith(trimmed, "!") THEN FALSE
     ELSE IF StartsWith(first, "/") /\ Len(first) > 1 /\ ~Includes(Tail(first), "/") THEN FALSE
     ELSE TRUE

\* claude.ts:278, isRealPrompt(display)
FilterPrompt ==
  /\ IsNull(real)
  /\ real' = Some(isRealPrompt(prompt))
  /\ UNCHANGED <<prompt, tvars, xvars, cvars, lvars, ui>>

InitPrompt ==
  /\ state = EmptyState
  /\ live = {}
  /\ env \in [SessionNames -> {CHOOSE e \in TuiEnvChoices : IsNull(e.path) /\ IsNull(e.id)}]
  /\ ctx = [mode |-> "res", projects |-> <<>>, selectedProjectIndex |-> 0,
            selectedProject |-> NULL, sessions |-> <<>>, tmuxSessions |-> <<>>,
            selectedTmuxIndex |-> 0]
  /\ pending = {}
  /\ errors = 0
  /\ last = [op |-> "init", ok |-> TRUE, pre |-> EmptyState]
  /\ file = [readable |-> FALSE, lines |-> <<>>]
  /\ inferred = NULL
  /\ prompt \in Prompts
  /\ real = NULL
  /\ claude = NoClaude
  /\ listed = NULL
  /\ shown = <<>>
  /\ labels = NULL
  /\ ui = NoUi

NextPrompt ==
  \/ FilterPrompt

SpecPrompt == InitPrompt /\ [][NextPrompt]_vars

\* ------------------------------------------------- session listing (claude.ts)
\* claude.ts:26, "(no prompt yet)"
NO_PROMPT_PLACEHOLDER ==
  <<"(", "n", "o", " ", "p", "r", "o", "m", "p", "t", " ", "y", "e", "t", ")">>

\* display texts of history lines: "/exit ", "! ls", "deploy", "fix", and the text of
\* the placeholder typed as a prompt
DisplayExit == <<"/", "e", "x", "i", "t", " ">>
DisplayShell == <<"!", " ", "l", "s">>
DisplayDeploy == <<"d", "e", "p", "l", "o", "y">>
DisplayFix == <<"f", "i", "x">>
Displays ==
  { NULL, Some(DisplayExit), Some(DisplayShell), Some(DisplayDeploy), Some(DisplayFix),
    Some(NO_PROMPT_PLACEHOLDER) }

IdC1 == <<"c1">>
IdC2 == <<"c2">>
ClaudeIds == {IdC1, IdC2}

\* timestamps of history lines, in ms; 0 is a number that `!ts` rejects
Timestamps == {5, 6, 10}

\* A history line is [json, sessionId, project, timestamp, display]: json as for a
\* transcript line, the fields NULL when they do not have the type the code asks for.
HistoryLine(id, project, ts, display) ==
  [json |-> "object", sessionId |-> id, project |-> project, timestamp |-> ts,
   display |-> display]

MalformedHistoryLines ==
  { [json |-> "blank", sessionId |-> NULL, project |-> NULL, timestamp |-> NULL, display |-> NULL],
    [json |-> "invalid", sessionId |-> NULL, project |-> NULL, timestamp |-> NULL, display |-> NULL],
    HistoryLine(NULL, Some(PathAlpha), Some(6), Some(DisplayDeploy)),
    HistoryLine(Some(EmptyStr), Some(PathAlpha), Some(6), Some(DisplayDeploy)),
    HistoryLine(Some(IdC1), Some(PathAlpha), NULL, Some(DisplayDeploy)),
    HistoryLine(Some(IdC1), Some(PathAlpha), Some(0), Some(DisplayDeploy)) }

\* lines of the first session with every timestamp and a rejected or a real prompt, or
\* with no display, a shell escape or the placeholder text; lines of the second session;
\* a line without a project
HistoryLines ==
  MalformedHistoryLines
    \cup { HistoryLine(Some(IdC1), Some(PathAlpha), Some(ts), display) :
             ts \in Timestamps,
             display \in {Some(DisplayExit), Some(DisplayDeploy), Some(DisplayFix)} }
    \cup { HistoryLine(Some(IdC1), Some(PathAlpha), Some(6), display) :
             display \in Displays }
    \cup { HistoryLine(Some(IdC2), Some(PathSrvAlpha), Some(ts), Some(DisplayDeploy)) :
             ts \in {5, 10} }
    \cup { HistoryLine(Some(IdC1), NULL, Some(10), Some(DisplayFix)) }

RECURSIVE SeqsUpTo(_, _)
\* the sequences of at most n elements of S
SeqsUpTo(S, n) ==
  IF n = 0 THEN {<<>>}
  ELSE LET shorter == SeqsUpTo(S, n - 1)
       IN shorter \cup {Append(t, x) : t \in {u \in shorter : Len(u) = n - 1}, x \in S}

Histories == SeqsUpTo(HistoryLines, MaxHistory)

\* claude.ts:160-181 getClaudeHomeDir. A candidate directory is "missing", a "file",
\* a "dir" without history.jsonl, a "dirWithHistory", or one whose stat throws.
DirStates == {"missing", "file", "dir", "dirWithHistory", "statThrows"}

RECURSIVE FirstHomeFrom(_, _)
FirstHomeFrom(candidates, i) ==
  IF i > Len(candidates) THEN NULL
  ELSE IF candidates[i] = "dirWithHistory" THEN Some(i)
  ELSE FirstHomeFrom(candidates, i + 1)

getClaudeHomeDirThrowing(c) ==
  [threw |-> \E i \in 1..Len(c.candidates) : c.candidates[i] \in {"missing", "statThrows"},
   dir |-> FirstHomeFrom(c.candidates, 1)]

\* the catch at 175-177 and throwIfNoEntry: false keep it from throwing
getClaudeHomeDir(c) == [threw |-> FALSE, dir |-> FirstHomeFrom(c.candidates, 1)]

\* claude.ts:269-270
ParsedHistoryObject(l) == l.json = "object"

\* claude.ts:276, !sessionId || !ts
SkippedHistoryLine(l) ==
  \/ Falsy(l.sessionId)
  \/ IsNull(l.timestamp) \/ Val(l.timestamp) = 0

\* claude.ts:278
isValidPrompt(l) == ~IsNull(l.display) /\ isRealPrompt(Val(l.display))

\* claude.ts:281-287, the entry of a session seen for the first time
NewEntry(l) ==
  [id |-> Val(l.sessionId), projectPath |-> l.project, lastTs |-> Val(l.timestamp),
   lastPrompt |-> IF isValidPrompt(l) THEN l.display ELSE NULL,
   lastPromptTs |-> IF isValidPrompt(l) THEN l.timestamp ELSE NULL,
   count |-> 1]

UpdateEntryLastSeen(prev, l) ==
  [prev EXCEPT !.count = @ + 1,
               !.lastTs = Val(l.timestamp),
               !.lastPrompt = IF isValidPrompt(l) THEN l.display ELSE @,
               !.lastPromptTs = IF isValidPrompt(l) THEN l.timestamp ELSE @]

UpdateEntryLatestLine(prev, l) ==
  LET ts == Val(l.timestamp)
  IN [prev EXCEPT !.count = @ + 1,
                  !.lastTs = IF ts >= prev.lastTs THEN ts ELSE @,
                  !.lastPrompt = IF ts >= prev.lastTs
                                 THEN (IF isValidPrompt(l) THEN l.display ELSE NULL) ELSE @,
                  !.lastPromptTs = IF ts >= prev.lastTs THEN l.timestamp ELSE @]

\* claude.ts:290-298
UpdateEntry(prev, l) ==
  LET ts == Val(l.timestamp)
      newer == ts >= prev.lastTs
      prompted == isValidPrompt(l) /\ (IsNull(prev.lastPromptTs) \/ ts >= Val(prev.lastPromptTs))
  IN [prev EXCEPT !.count = @ + 1,
                  !.lastTs = IF newer THEN ts ELSE @,
                  !.projectPath = IF newer /\ ~Falsy(l.project) THEN l.project ELSE @,
                  !.lastPrompt = IF prompted THEN l.display ELSE @,
                  !.lastPromptTs = IF prompted THEN l.timestamp ELSE @]

\* byId.get(sessionId): the position of the entry in insertion order, 0 when there is none
EntryIndex(byId, id) ==
  IF \E k \in 1..Len(byId) : byId[k].id = id
  THEN CHOOSE k \in 1..Len(byId) : byId[k].id = id
  ELSE 0

RECURSIVE GroupFrom(_, _, _)
\* claude.ts:266-299, the loop over the history lines from line i on
GroupFrom(byId, lines, i) ==
  IF i > Len(lines) THEN byId
  ELSE LET l == lines[i] IN
       IF l.json = "blank" \/ ~ParsedHistoryObject(l) \/ SkippedHistoryLine(l)
       THEN GroupFrom(byId, lines, i + 1)
       ELSE LET k == EntryIndex(byId, Val(l.sessionId)) IN
            IF k = 0 THEN GroupFrom(Append(byId, NewEntry(l)), lines, i + 1)
            ELSE GroupFrom([byId EXCEPT ![k] = UpdateEntry(byId[k], l)], lines, i + 1)

\* A transcript as listClaudeSessions meets it: kind is "missing", "unreadable" (it
\* exists and open throws) or "ok"; lines is its tail; head holds, line by line, what
\* parseClaudeSessionFile reads: [json, type, cwd, model]; age is Date.now() - mtimeMs;
\* statFails tells whether statSync throws.
SessionFile(kind, lines, head, age, statFails) ==
  [kind |-> kind, lines |-> lines, head |-> head, age |-> age, statFails |-> statFails]

MissingFile == SessionFile("missing", <<>>, <<>>, 0, FALSE)
UnreadableFile == SessionFile("unreadable", <<>>, <<>>, 0, FALSE)

HeadLine(json, type, cwd, model) == [json |-> json, type |-> type, cwd |-> cwd, model |-> model]
ModelOpus == <<"opus">>
HeadUser == <<HeadLine("object", "user", Some(PathAlpha), NULL)>>
HeadAssistant ==
  <<HeadLine("invalid", "", NULL, NULL),
    HeadLine("object", "assistant", NULL, Some(ModelOpus)),
    HeadLine("object", "user", Some(PathSrvAlpha), NULL),
    HeadLine("object", "assistant", Some(PathAlpha), Some(EmptyStr))>>
HeadNoise == <<HeadLine("blank", "", NULL, NULL), HeadLine("object", "summary", Some(PathAlpha), NULL)>>
Heads == {<<>>, HeadUser, HeadAssistant, HeadNoise}

\* claude.ts:309
recentMs == 20000

\* ages of transcripts, in ms; a negative age is a modification time ahead of the clock
Ages == {0 - 1000, 0, recentMs - 1, recentMs, 3600000}

SampleTails ==
  { <<>>, <<InvalidLine>>, <<UserPlain>>, <<UserPlain, AssistantText>>,
    <<Turn("assistant", ArrayContent(<<"thinking">>))>>,
    <<AssistantText, Turn("user", StringContent(<<"/exit">>))>> }

\* a transcript none of whose lines parses
GarbledFile == SessionFile("ok", <<InvalidLine>>, HeadNoise, 3600000, FALSE)

SessionFiles ==
  {MissingFile, UnreadableFile, GarbledFile}
    \cup { SessionFile("ok", tail, HeadUser, age, FALSE) : tail \in SampleTails, age \in Ages }
    \cup { SessionFile("ok", <<UserPlain, AssistantText>>, head, 3600000, FALSE) : head \in Heads }
    \cup { SessionFile("ok", <<UserPlain, AssistantText>>, HeadUser, 0, TRUE) }

\* the transcript of session id, under the project directory of its path
FileOf(c, id) == IF id \in DOMAIN c.files THEN c.files[id] ELSE MissingFile

\* claude.ts:183-205 findClaudeSessionFile: whether a transcript is found
findClaudeSessionFile(c, projectPath, id) ==
  IF Falsy(projectPath) THEN FALSE ELSE FileOf(c, id).kind # "missing"

HeadTurn(l) == l.json = "object" /\ l.type \in {"user", "assistant"}

RECURSIVE FirstCwdFrom(_, _)
\* claude.ts:223-225, cwd = cwd ?? parsed.cwd
FirstCwdFrom(head, i) ==
  IF i > Len(head) THEN NULL
  ELSE IF HeadTurn(head[i]) /\ ~IsNull(head[i].cwd) THEN head[i].cwd
  ELSE FirstCwdFrom(head, i + 1)

RECURSIVE FirstModelFrom(_, _)
\* claude.ts:233-237, model = model ?? m
FirstModelFrom(head, i) ==
  IF i > Len(head) THEN NULL
  ELSE IF head[i].json = "object" /\ head[i].type = "assistant" /\ ~IsNull(head[i].model)
  THEN head[i].model
  ELSE FirstModelFrom(head, i + 1)

NoExtra == [cwd |-> NULL, model |-> NULL]

\* claude.ts:207-243 parseClaudeSessionFile; readFileHead (57-66) throws when the file
\* cannot be opened, and nothing here catches it
parseClaudeSessionFile(f) ==
  IF f.kind = "unreadable" THEN [threw |-> TRUE, extra |-> NoExtra]
  ELSE [threw |-> FALSE, extra |-> [cwd |-> FirstCwdFrom(f.head, 1), model |-> FirstModelFrom(f.head, 1)]]

\* the transcript as getLastMessageType reads it
TailOf(f) == [readable |-> f.kind = "ok", lines |-> f.lines]

RecencyCorrectionAlways(f, lastMessageType) ==
  IF lastMessageType = "assistant" THEN "user" ELSE lastMessageType

\* claude.ts:306-316
RecencyCorrection(f, lastMessageType) ==
  IF lastMessageType = "assistant" /\ ~f.statFails /\ f.age < recentMs
  THEN "user"
  ELSE lastMessageType

isoUnpadded(ms) == IF ms < 10 THEN <<ms>> ELSE <<ms \div 10, ms % 10>>

\* claude.ts:53-55 isoFromUnixMs: ISO-8601 text has fixed-width, zero-padded fields from
\* the most to the least significant; two decimal digits stand for them
isoFromUnixMs(ms) == <<ms \div 10, ms % 10>>

\* claude.ts:317-325, the summary of one entry
Summarize(info, found, lastMessageType, extra) ==
  [id |-> info.id,
   projectPath |-> info.projectPath,
   lastActivityAt |-> isoFromUnixMs(info.lastTs),
   lastPrompt |-> Coalesce(info.lastPrompt, NO_PROMPT_PLACEHOLDER),
   sessionFile |-> found,
   lastMessageType |-> lastMessageType,
   cwd |-> extra.cwd,
   model |-> extra.model]

RECURSIVE SummariesFrom(_, _, _, _)
\* claude.ts:301-326, the loop over the entries from entry k on
SummariesFrom(c, byId, k, out) ==
  IF k > Len(byId) THEN [threw |-> FALSE, out |-> out]
  ELSE LET info == byId[k]
           found == findClaudeSessionFile(c, info.projectPath, info.id)
           f == FileOf(c, info.id)
           parsed == IF found THEN parseClaudeSessionFile(f) ELSE [threw |-> FALSE, extra |-> NoExtra]
           inferredType == IF found THEN getLastMessageType(TailOf(f)) ELSE "undefined"
           lastMessageType == IF found THEN RecencyCorrection(f, inferredType) ELSE inferredType
       IN IF parsed.threw THEN [threw |-> TRUE, out |-> <<>>]
          ELSE SummariesFrom(c, byId, k + 1,
                             Append(out, Summarize(info, found, lastMessageType, parsed.extra)))

RECURSIVE LocaleCompare(_, _)
\* String.prototype.localeCompare on strings of digits: -1, 0 or 1
LocaleCompare(a, b) ==
  IF Len(a) = 0 /\ Len(b) = 0 THEN 0
  ELSE IF Len(a) = 0 THEN 0 - 1
  ELSE IF Len(b) = 0 THEN 1
  ELSE IF a[1] < b[1] THEN 0 - 1
  ELSE IF a[1] > b[1] THEN 1
  ELSE LocaleCompare(Tail(a), Tail(b))

RECURSIVE InsertByActivity(_, _)
\* x goes behind every summary that the comparator does not place after it
InsertByActivity(sorted, x) ==
  IF Len(sorted) = 0 THEN <<x>>
  ELSE IF LocaleCompare(x.lastActivityAt, sorted[1].lastActivityAt) > 0
  THEN <<x>> \o sorted
  ELSE <<sorted[1]>> \o InsertByActivity(Tail(sorted), x)

RECURSIVE SortByActivity(_)
\* claude.ts:328, a stable sort with (a, b) => b.lastActivityAt.localeCompare(a.lastActivityAt)
SortByActivity(out) ==
  IF Len(out) = 0 THEN <<>>
  ELSE InsertByActivity(SortByActivity(SubSeq(out, 1, Len(out) - 1)), out[Len(out)])

\* claude.ts:245-330 listClaudeSessions: [threw, out]
listClaudeSessions(c) ==
  LET home == getClaudeHomeDir(c)
  IN IF home.threw THEN [threw |-> TRUE, out |-> <<>>]
     ELSE IF IsNull(home.dir) THEN [threw |-> FALSE, out |-> <<>>]
     ELSE IF c.candidates[Val(home.dir)] # "dirWithHistory" THEN [threw |-> FALSE, out |-> <<>>]
     ELSE LET byId == GroupFrom(<<>>, c.history, 1)
              made == SummariesFrom(c, byId, 1, <<>>)
          IN IF made.threw THEN made
             ELSE [threw |-> FALSE, out |-> SortByActivity(made.out)]

\* the candidate directories when only ~/.claude exists, with its history
OnlyDotClaude == <<"dirWithHistory", "missing", "missing">>

OldAssistantFile == SessionFile("ok", <<UserPlain, AssistantText>>, HeadUser, 3600000, FALSE)
DefaultFiles == [id \in ClaudeIds |-> IF id = IdC1 THEN OldAssistantFile ELSE MissingFile]

\* two sessions, one line each
TwoSessions ==
  <<HistoryLine(Some(IdC1), Some(PathAlpha), Some(5), Some(DisplayDeploy)),
    HistoryLine(Some(IdC2), Some(PathSrvAlpha), Some(10), Some(DisplayFix))>>
\* the same, the first session without a project path
TwoSessionsOneHomeless ==
  <<HistoryLine(Some(IdC1), NULL, Some(5), Some(DisplayDeploy)),
    HistoryLine(Some(IdC2), Some(PathSrvAlpha), Some(10), Some(DisplayFix))>>

\* installations that differ in the history index, in the transcripts, and in the
\* candidate directories (an override directory may come first)
ClaudeHomes ==
  { [candidates |-> OnlyDotClaude, history |-> h, files |-> DefaultFiles] : h \in Histories }
    \cup { [candidates |-> OnlyDotClaude, history |-> h, files |-> fs] :
             h \in {TwoSessions, TwoSessionsOneHomeless}, fs \in [ClaudeIds -> SessionFiles] }
    \cup { [candidates |-> cs, history |-> TwoSessions, files |-> DefaultFiles] :
             cs \in [1..3 -> DirStates] \cup [1..4 -> DirStates] }

\* tui-refresh.ts:176, ctx.actions.listClaudeSessions()
ListSessions ==
  /\ IsNull(listed)
  /\ listed' = Some(listClaudeSessions(claude))
  /\ UNCHANGED <<claude, tvars, xvars, pvars, lvars, ui>>

InitClaude ==
  /\ state = EmptyState
  /\ live = {}
  /\ env \in [SessionNames -> {CHOOSE e \in TuiEnvChoices : IsNull(e.path) /\ IsNull(e.id)}]
  /\ ctx = [mode |-> "res", projects |-> <<>>, selectedProjectIndex |-> 0,
            selectedProject |-> NULL, sessions |-> <<>>, tmuxSessions |-> <<>>,
            selectedTmuxIndex |-> 0]
  /\ pending = {}
  /\ errors = 0
  /\ last = [op |-> "init", ok |-> TRUE, pre |-> EmptyState]
  /\ file = [readable |-> FALSE, lines |-> <<>>]
  /\ inferred = NULL
  /\ prompt = <<>>
  /\ real = NULL
  /\ claude \in ClaudeHomes
  /\ listed = NULL
  /\ shown = <<>>
  /\ labels = NULL
  /\ ui = NoUi

NextClaude ==
  \/ ListSessions

SpecClaude == InitClaude /\ [][NextClaude]_vars

\* ------------------------------------------- command labels (tui-labels.ts)
\* A command is a string of characters; " " stands for any white space. A session of
\* the panel is [name, command], the command absent (NULL) or a string.
MaxCmdLen == 5

CmdChars == {" ", "a", "b"}

Commands == Strings(CmdChars, MaxCmdLen)

ShortCommands == {c \in Commands : Len(c) < MaxCmdLen}

\* the fixed label of a session without a command
ShellLabel == <<"(", "s", "h", "e", "l", "l", ")">>

\* s.split(/\s+/) of a trimmed, non-empty string: its white-space-delimited tokens
SplitWhitespace(t) == FilterBoolean(Split(t, " "))

RECURSIVE JoinFrom(_, _)
\* parts.slice(0, n).join(" ")
JoinFrom(parts, n) ==
  IF n = 0 THEN <<>>
  ELSE IF n = 1 THEN parts[1]
  ELSE JoinFrom(parts, n - 1) \o <<" ">> \o parts[n]

\* String.prototype.startsWith
startsWith(t, prefix) == Len(prefix) <= Len(t) /\ SubSeq(t, 1, Len(prefix)) = prefix

\* cmd?.trim(), the empty string when the command is absent
Trimmed(cmd) == IF IsNull(cmd) THEN <<>> ELSE Trim(Val(cmd))

\* a base command that is the whole trimmed command instead of its first token
getBaseCommandWhole(cmd) ==
  IF Len(Trimmed(cmd)) = 0 THEN ShellLabel ELSE Trimmed(cmd)

\* tui-labels.ts getBaseCommand
getBaseCommand(cmd) ==
  IF Len(Trimmed(cmd)) = 0 THEN ShellLabel
  ELSE SplitWhitespace(Trimmed(cmd))[1]

\* s.command?.trim() || "(shell)"
FullCommand(cmd) == IF Len(Trimmed(cmd)) = 0 THEN ShellLabel ELSE Trimmed(cmd)

RECURSIVE GrowPrefix(_, _, _, _)
\* the loop over i = 1 .. parts.length - 1 (i counts from 0): the prefix of i + 1
\* tokens is taken, and the loop stops once exactly one full command of the group
\* starts with it; prefix is the value before the iteration
GrowPrefix(parts, fullCmds, i, prefix) ==
  IF i >= Len(parts) THEN prefix
  ELSE LET next == JoinFrom(parts, i + 1)
           matches == {fc \in fullCmds : startsWith(fc, next)}
       IN IF Cardinality(matches) = 1 THEN next
          ELSE GrowPrefix(parts, fullCmds, i + 1, next)

\* the label of the session at position k of sessions
LabelOf(sessions, k) ==
  LET base == getBaseCommand(sessions[k].command)
      group == {j \in 1..Len(sessions) : getBaseCommand(sessions[j].command) = base}
      fullCmds == {FullCommand(sessions[j].command) : j \in group}
      full == FullCommand(sessions[k].command)
  IN IF Cardinality(group) = 1 THEN base
     ELSE IF Cardinality(fullCmds) = 1 THEN base
     ELSE GrowPrefix(SplitWhitespace(full), fullCmds, 1, base)

\* tui-labels.ts disambiguateCommands: the map from session name to label
disambiguateCommands(sessions) ==
  [n \in {sessions[k].name : k \in 1..Len(sessions)} |->
     LabelOf(sessions, CHOOSE k \in 1..Len(sessions) : sessions[k].name = n)]

PanelSession(name, command) == [name |-> name, command |-> command]

\* the third session of the panel, when there is one
ThirdCommands == {NULL, Some(<<"a", " ", "b">>), Some(<<"a", " ", "a">>)}

Panels ==
  { <<PanelSession("s1", c1), PanelSession("s2", c2)>> \o rest :
      c1 \in {NULL} \cup {Some(c) : c \in Commands},
      c2 \in {NULL} \cup {Some(c) : c \in ShortCommands},
      rest \in {<<>>} \cup {<<PanelSession("s3", c3)>> : c3 \in ThirdCommands} }

\* the sessions panel labels its sessions
LabelSessions ==
  /\ labels = NULL
  /\ labels' = Some(disambiguateCommands(shown))
  /\ UNCHANGED <<shown, tvars, xvars, pvars, cvars, ui>>

InitLabels ==
  /\ state = EmptyState
  /\ live = {}
  /\ env \in [SessionNames -> {CHOOSE e \in TuiEnvChoices : IsNull(e.path) /\ IsNull(e.id)}]
  /\ ctx = [mode |-> "res", projects |-> <<>>, selectedProjectIndex |-> 0,
            selectedProject |-> NULL, sessions |-> <<>>, tmuxSessions |-> <<>>,
            selectedTmuxIndex |-> 0]
  /\ pending = {}
  /\ errors = 0
  /\ last = [op |-> "init", ok |-> TRUE, pre |-> EmptyState]
  /\ file = [readable |-> FALSE, lines |-> <<>>]
  /\ inferred = NULL
  /\ prompt = <<>>
  /\ real = NULL
  /\ claude = NoClaude
  /\ listed = NULL
  /\ shown \in Panels
  /\ labels = NULL
  /\ ui = NoUi

NextLabels ==
  \/ LabelSessions

SpecLabels == InitLabels /\ [][NextLabels]_vars

\* ------------------------------------------------------------- claims
\* the last handler ran the reconciler to completion on the document last.pre
\* and the live set live, and did nothing else to the document
RanReconcile ==
  /\ last.op \in {"refresh", "closeError", "setMode", "cancelDelete"}
  /\ last.ok

\* the value of a provenance variable that is set to a non-empty string
HasValue(name, key) == ~IsNull(env[name][key]) /\ Len(Val(env[name][key])) > 0

\* the live sessions the last reconciler run had to recover
Recovered == { n \in live \ DOMAIN last.pre.sessions : HasValue(n, "path") }

\* C1: reconciling a second time with the live sessions and their provenance
\* unchanged, in whatever order tmux lists them and at whatever time, leaves the
\* document as the first run made it.
C1_Idempotent ==
  \A l1 \in Listings(live), l2 \in Listings(live), t1 \in Times, t2 \in Times :
    LET once == reconcileStateWithTmux(state, l1, t1).state
    IN reconcileStateWithTmux(once, l2, t2).state = once

\* a reconciler run that pruned or recovered something
C1_Witness ==
  /\ RanReconcile
  /\ state # last.pre
  /\ \E n \in Recovered : IsNull(env[n].createdAt)

\* C2: of the records the document held before a reconciler run, exactly those
\* whose name is live are still there afterwards.
C2_PrunesExactlyDead ==
  RanReconcile =>
    \A n \in DOMAIN last.pre.sessions : (n \in DOMAIN state.sessions) <=> (n \in live)

\* a run that pruned one record and kept another
C2_Witness ==
  /\ RanReconcile
  /\ \E n \in DOMAIN last.pre.sessions : n \notin live
  /\ \E n \in DOMAIN last.pre.sessions : n \in live

\* what C3 says of the record and the project of a recovered session n
RecoveredAsClaimed(n) ==
  /\ n \in DOMAIN state.sessions
  /\ LET rec == state.sessions[n]
         projectPath == Val(env[n].path)
     IN /\ rec.name = n
        /\ rec.kind = (IF env[n].managed = Some(<<"1">>) THEN "managed" ELSE "linked")
        /\ rec.projectId \in DOMAIN state.projects
        /\ rec.projectId \in DOMAIN last.pre.projects
             => state.projects[rec.projectId] = last.pre.projects[rec.projectId]
        /\ rec.projectId \notin DOMAIN last.pre.projects
             => \E m \in Recovered :
                  /\ state.sessions[m].projectId = rec.projectId
                  /\ state.projects[rec.projectId].path = Val(env[m].path)
                  /\ state.projects[rec.projectId].name = ProjectNameOf(Val(env[m].path))

\* the end-to-end case: an empty document and one live session of /tmp/alpha
EndToEnd ==
  (last.pre = EmptyState /\ \E n \in live : live = {n} /\ env[n].path = Some(PathAlpha))
    => /\ Cardinality(DOMAIN state.sessions) = 1
       /\ Cardinality(DOMAIN state.projects) = 1
       /\ \A i \in DOMAIN state.projects : state.projects[i].path = PathAlpha

C4_NoInventedIdentity ==
  RanReconcile =>
    /\ \A n \in live \ DOMAIN last.pre.sessions :
         IsNull(env[n].path) => n \notin DOMAIN state.sessions
    /\ \A i \in DOMAIN state.projects \ DOMAIN last.pre.projects :
         \E m \in Recovered :
           /\ state.sessions[m].projectId = i
           /\ state.projects[i].path = Val(env[m].path)

\* a run over a live session that carries a project id but no project path
C4_Witness ==
  /\ RanReconcile
  /\ \E n \in live :
       /\ IsNull(env[n].path)
       /\ env[n].id = Some(IdP1)
       /\ n \notin DOMAIN state.sessions
       /\ IdP1 \notin DOMAIN state.projects

\* C5: a refresh whose enumeration of the live sessions fails prunes no record,
\* changes no list of the context and leaves an error box open.
C5_FailureSurfaced ==
  [][(last'.op \in {"refresh", "closeError", "setMode"} /\ ~last'.ok) =>
       /\ state' = state
       /\ ctx'.projects = ctx.projects
       /\ ctx'.sessions = ctx.sessions
       /\ ctx'.tmuxSessions = ctx.tmuxSessions
       /\ errors' = (IF last'.op = "closeError" THEN errors ELSE errors + 1)
       /\ errors' > 0]_vars

\* a failed refresh in tmux mode with sessions listed and a stale record kept
C5_Witness ==
  /\ last.op = "refresh"
  /\ ~last.ok
  /\ errors > 0
  /\ ctx.mode = "tmux"
  /\ Len(ctx.tmuxSessions) > 0
  /\ \E n \in DOMAIN state.sessions : n \notin live

\* C6: every session record refers to a project of the document.
C6_ReferentialIntegrity ==
  \A n \in DOMAIN state.sessions : state.sessions[n].projectId \in DOMAIN state.projects

\* a project with a session was deleted
C6_Witness ==
  /\ last.op = "deleteProject"
  /\ \E n \in DOMAIN last.pre.sessions :
       last.pre.sessions[n].projectId \notin DOMAIN state.projects

\* C7: no two projects of the document have the same path.
C7_OneProjectPerPath ==
  \A i \in DOMAIN state.projects, j \in DOMAIN state.projects :
    state.projects[i].path = state.projects[j].path => i = j

\* C8: a recovered session's project id is the project-id variable if that is
\* present and not empty, and computeProjectId of the project path otherwise.
C8_ProjectIdSource ==
  RanReconcile =>
    \A n \in Recovered :
      state.sessions[n].projectId =
        (IF HasValue(n, "id") THEN Val(env[n].id) ELSE computeProjectId(Val(env[n].path)))


\* ---- activity inference, stated over the transcript itself
InferredFrom(result) == file.readable /\ inferred = Some(result)
Inferred == file.readable /\ ~IsNull(inferred)

UserTurnAt(i) ==
  /\ file.lines[i].json = "object"
  /\ file.lines[i].type = "user"
  /\ file.lines[i].message

AssistantTurnAt(i) ==
  /\ file.lines[i].json = "object"
  /\ file.lines[i].type = "assistant"
  /\ file.lines[i].message

TextAt(i) == file.lines[i].content.text
ItemsAt(i) == file.lines[i].content.items
HasText(i) == file.lines[i].content.kind = "string"
HasItem(i, types) ==
  /\ file.lines[i].content.kind = "array"
  /\ \E k \in 1..Len(ItemsAt(i)) : ItemsAt(i)[k] \in types

ShellEchoAt(i) == HasText(i) /\ \E k \in 1..Len(TextAt(i)) : TextAt(i)[k] \in localCommandMarkers
ExitPhraseAt(i) == HasText(i) /\ \E k \in 1..Len(TextAt(i)) : TextAt(i)[k] \in {"/exit", "Goodbye!"}

\* the user turns that come after line i
NewerUserTurns(i) == Cardinality({j \in (i + 1)..Len(file.lines) : UserTurnAt(j)})

\* line i is a user turn that says goodbye and is no shell-escape echo
ExitTurnAt(i) == UserTurnAt(i) /\ ExitPhraseAt(i) /\ ~ShellEchoAt(i)

ExitFires ==
  \E i \in 1..Len(file.lines) : ExitTurnAt(i) /\ NewerUserTurns(i) < ExitScanLimit

\* C9: the inferred state is exited exactly when one of the last 5 user turns carries
\* a plain-text exit phrase and is no shell-escape echo, whatever turns follow it; an
\* exit phrase that only older user turns carry does not give exited.
C9_ExitScanWindow == Inferred => (inferred = Some("exited") <=> ExitFires)

\* exited is inferred from the fifth newest user turn, with an assistant turn as the
\* last line of the transcript
C9_Witness ==
  /\ InferredFrom("exited")
  /\ \E i \in 1..Len(file.lines) : ExitTurnAt(i) /\ NewerUserTurns(i) = ExitScanLimit - 1
  /\ \A i \in 1..Len(file.lines) : ExitTurnAt(i) => NewerUserTurns(i) >= ExitScanLimit - 1
  /\ Len(file.lines) > 0 /\ AssistantTurnAt(Len(file.lines))

TurnAt(i) == UserTurnAt(i) \/ AssistantTurnAt(i)
HasTurn == \E i \in 1..Len(file.lines) : TurnAt(i)
NewestTurn == CHOOSE i \in 1..Len(file.lines) : TurnAt(i) /\ \A j \in (i + 1)..Len(file.lines) : ~TurnAt(j)

ExpectedOfTurn(i) ==
  IF UserTurnAt(i)
  THEN IF HasItem(i, {"tool_result"}) THEN "user"
       ELSE IF ShellEchoAt(i) THEN "assistant"
       ELSE "user"
  ELSE IF HasItem(i, {"tool_use", "thinking"}) THEN "user"
       ELSE "assistant"

\* C10: when the exit-scan does not fire, the newest turn of either role decides: a
\* user turn with a tool result gives user, a user turn that is a shell-escape echo
\* gives assistant, any other user turn gives user, an assistant turn with a tool
\* invocation or a thinking segment gives user, any other assistant turn gives assistant.
C10_NewestTurnDecides ==
  (Inferred /\ ~ExitFires /\ HasTurn) => inferred = Some(ExpectedOfTurn(NewestTurn))

\* a shell-escape echo is the newest turn, a line that is no turn follows it, and
\* assistant is inferred
C10_Witness ==
  /\ InferredFrom("assistant")
  /\ ~ExitFires
  /\ HasTurn
  /\ UserTurnAt(NewestTurn) /\ ShellEchoAt(NewestTurn)
  /\ NewestTurn < Len(file.lines)

\* the newest turn is an assistant turn: with a tool-call segment, or plain
NewestIsToolCall ==
  HasTurn /\ AssistantTurnAt(NewestTurn) /\ HasItem(NewestTurn, {"tool_use"})
NewestIsPlainAssistant ==
  HasTurn /\ AssistantTurnAt(NewestTurn) /\ ~HasItem(NewestTurn, {"tool_use", "thinking"})

\* C11 as stated: whatever precedes it, a newest assistant turn with a tool call gives
\* user and a newest plain assistant turn gives assistant.
C11_NewestAssistantTurn ==
  Inferred =>
    /\ NewestIsToolCall => inferred = Some("user")
    /\ NewestIsPlainAssistant => inferred = Some("assistant")

\* C11, amended: the same, for transcripts in which no exit turn lies among the 5
\* newest user turns.
C11_NewestAssistantTurnNoExit ==
  (Inferred /\ ~ExitFires) =>
    /\ NewestIsToolCall => inferred = Some("user")
    /\ NewestIsPlainAssistant => inferred = Some("assistant")

\* a plain assistant turn is the last line, a user turn precedes it, assistant is inferred
C11_Witness ==
  /\ InferredFrom("assistant")
  /\ NewestIsPlainAssistant
  /\ NewestTurn = Len(file.lines)
  /\ \E i \in 1..Len(file.lines) : UserTurnAt(i)

\* the transcript with every line that is no user or assistant turn taken out
IsTurnLine(l) == l.json = "object" /\ l.type \in {"user", "assistant"} /\ l.message
TurnsOnly == [readable |-> file.readable, lines |-> SelectSeq(file.lines, IsTurnLine)]
ActivityResults == {"user", "assistant", "exited", "undefined"}

\* C13: activity inference returns and never throws; lines that are noise or no turn do
\* not change the classification of the turns that remain; the result is undefined when
\* the tail holds no turn or the transcript cannot be read.
C13_SkipsNoiseNeverThrows ==
  ~IsNull(inferred) =>
    /\ Val(inferred) \in ActivityResults
    /\ inferred = Some(getLastMessageType(TurnsOnly))
    /\ (~file.readable \/ ~HasTurn) => inferred = Some("undefined")

\* a transcript with a line that is no turn after its newest turn and another before it,
\* classified by that turn
C13_Witness ==
  /\ InferredFrom("user")
  /\ HasTurn
  /\ NewestTurn < Len(file.lines)
  /\ \E i \in 1..(NewestTurn - 1) : ~TurnAt(i)

\* ---- the real-prompt filter, stated over the characters of the prompt
Blank(t) == \A k \in 1..Len(t) : t[k] = " "
FirstInk(t) == CHOOSE k \in 1..Len(t) : t[k] # " " /\ \A j \in 1..(k - 1) : t[j] = " "
LastInk(t) == CHOOSE k \in 1..Len(t) : t[k] # " " /\ \A j \in (k + 1)..Len(t) : t[j] = " "
\* the prompt without the white space around it
Inked(t) == SubSeq(t, FirstInk(t), LastInk(t))
\* a "/", then one or more characters, none of them "/" or white space
BareSlashToken(t) ==
  /\ Len(t) > 1
  /\ t[1] = "/"
  /\ \A k \in 2..Len(t) : t[k] \notin {"/", " "}
\* the prompt starts with such a token, which ends the prompt or is followed by white space
LeadingSlashToken(t) ==
  \E n \in 2..Len(t) :
    /\ BareSlashToken(SubSeq(t, 1, n))
    /\ n = Len(t) \/ t[n + 1] = " "

\* C17 as stated: a prompt is rejected exactly when it is empty or white space, begins
\* with "!", or is a single bare slash-command token.
C17_RejectsBareSlashOnly ==
  ~IsNull(real) =>
    (real = Some(FALSE) <=>
       \/ Blank(prompt)
       \/ Inked(prompt)[1] = "!"
       \/ BareSlashToken(Inked(prompt)))

\* C17, amended: a prompt is rejected exactly when it is empty or white space, begins
\* with "!", or its first word is a bare slash-command token, alone or followed by
\* further words.
C17_RejectsLeadingSlashToken ==
  ~IsNull(real) =>
    (real = Some(FALSE) <=>
       \/ Blank(prompt)
       \/ Inked(prompt)[1] = "!"
       \/ LeadingSlashToken(Inked(prompt)))

\* a slash command with an argument has been rejected
C17_Witness ==
  /\ real = Some(FALSE)
  /\ ~Blank(prompt)
  /\ LeadingSlashToken(Inked(prompt))
  /\ ~BareSlashToken(Inked(prompt))

\* ---- the session listing, stated over the files it was computed from
Returned == ~IsNull(listed) /\ ~Val(listed).threw
Listing == Val(listed).out
Summaries == Range(Listing)

\* what activity inference alone says of the transcript behind a summary
BaseType(sm) ==
  IF sm.sessionFile THEN getLastMessageType(TailOf(FileOf(claude, sm.id))) ELSE "undefined"
AgeOf(sm) == FileOf(claude, sm.id).age

\* C12: the recency correction changes a result only from assistant to user, and only
\* for a transcript modified less than 20 s ago; user, exited and undefined are never
\* changed, and assistant on an older transcript stays assistant.
C12_RecencyOnlyUpgradesFresh ==
  Returned =>
    \A sm \in Summaries :
      /\ sm.lastMessageType # BaseType(sm) =>
           /\ BaseType(sm) = "assistant"
           /\ sm.lastMessageType = "user"
           /\ AgeOf(sm) < recentMs
      /\ (BaseType(sm) = "assistant" /\ AgeOf(sm) >= recentMs) => sm.lastMessageType = "assistant"

\* one listing holds an assistant result upgraded on a transcript one ms inside the
\* window and an assistant result kept on a transcript exactly at its edge
C12_Witness ==
  /\ Returned
  /\ \E sm \in Summaries :
       BaseType(sm) = "assistant" /\ AgeOf(sm) = recentMs - 1 /\ sm.lastMessageType = "user"
  /\ \E sm \in Summaries :
       BaseType(sm) = "assistant" /\ AgeOf(sm) = recentMs /\ sm.lastMessageType = "assistant"

\* a transcript that is there and cannot be read, or none of whose lines parses
FailsToParse(f) == f.kind = "unreadable" \/ f = GarbledFile
\* the installation with those transcripts taken away
WithoutFailures ==
  [claude EXCEPT !.files = [id \in DOMAIN claude.files |->
                              IF FailsToParse(claude.files[id]) THEN MissingFile
                              ELSE claude.files[id]]]
SummaryOf(out, id) == CHOOSE sm \in Range(out) : sm.id = id

\* C14: a transcript that cannot be read or parsed is not fatal: the listing returns,
\* the session of that transcript has no lastMessageType and no metadata, and every
\* other session is summarized as it is without that transcript.
C14_BadTranscriptNotFatal ==
  ~IsNull(listed) =>
    /\ ~Val(listed).threw
    /\ \A sm \in Summaries :
         IF sm.sessionFile /\ FailsToParse(FileOf(claude, sm.id))
         THEN sm.lastMessageType = "undefined" /\ IsNull(sm.cwd) /\ IsNull(sm.model)
         ELSE sm = SummaryOf(listClaudeSessions(WithoutFailures).out, sm.id)

\* every candidate directory is absent or holds no history file
NothingInstalled ==
  /\ Len(claude.candidates) > 0
  /\ \A i \in 1..Len(claude.candidates) : claude.candidates[i] \in {"missing", "dir"}

\* C15: when the home directory or its history file is absent, listClaudeSessions
\* returns the empty list and does not throw.
C15_AbsentHomeIsEmpty ==
  (~IsNull(listed) /\ NothingInstalled) => listed = Some([threw |-> FALSE, out |-> <<>>])

\* an override directory without a history file and no other directory: empty listing
C15_Witness ==
  /\ Returned
  /\ Listing = <<>>
  /\ Len(claude.candidates) = 4
  /\ claude.candidates[1] = "dir"
  /\ \A i \in 2..4 : claude.candidates[i] = "missing"

\* the history lines of a session: objects with that session id and a timestamp
LinesOf(id) ==
  { i \in 1..Len(claude.history) :
      /\ claude.history[i].json = "object"
      /\ claude.history[i].sessionId = Some(id)
      /\ ~IsNull(claude.history[i].timestamp) /\ Val(claude.history[i].timestamp) # 0 }
TsAt(i) == Val(claude.history[i].timestamp)
\* those of them whose prompt passes the real-prompt filter
RealLinesOf(id) ==
  { i \in LinesOf(id) :
      ~IsNull(claude.history[i].display) /\ isRealPrompt(Val(claude.history[i].display)) }

\* C16: lastPrompt is the prompt of a line that passes the real-prompt filter and has
\* the greatest timestamp among the lines of the session that pass it, wherever the
\* lines stand in the file; lines whose prompt is rejected do not displace it.
C16_LastPromptIsNewestReal ==
  Returned =>
    \A sm \in Summaries :
      RealLinesOf(sm.id) # {} =>
        \E i \in RealLinesOf(sm.id) :
          /\ sm.lastPrompt = Val(claude.history[i].display)
          /\ \A j \in RealLinesOf(sm.id) : TsAt(j) <= TsAt(i)

\* a session with a real prompt, an older real prompt further down the file and a newer
\* rejected prompt: lastPrompt is the first of the three
C16_Witness ==
  /\ Returned
  /\ \E sm \in Summaries :
       \E i, j \in RealLinesOf(sm.id) :
         \E k \in LinesOf(sm.id) \ RealLinesOf(sm.id) :
           /\ i < j /\ TsAt(j) < TsAt(i) /\ TsAt(i) < TsAt(k)
           /\ claude.history[i].display # claude.history[j].display
           /\ sm.lastPrompt = Val(claude.history[i].display)

\* C18: in a returned summary, lastPrompt is the placeholder if and only if no history
\* line of the session passes the real-prompt filter.
C18_PlaceholderIffNoRealPrompt ==
  Returned =>
    \A sm \in Summaries :
      sm.lastPrompt = NO_PROMPT_PLACEHOLDER <=> RealLinesOf(sm.id) = {}

\* a candidate directory holds the history index
Installed == \E i \in 1..Len(claude.candidates) : claude.candidates[i] = "dirWithHistory"
IdsInHistory == { id \in ClaudeIds : LinesOf(id) # {} }
\* the greatest timestamp among the history lines of a session
MaxTsOf(id) == CHOOSE t \in {TsAt(i) : i \in LinesOf(id)} : \A i \in LinesOf(id) : TsAt(i) <= t

\* C19: the listing holds exactly one summary for each session id of the history index
\* and none for any other id, and the lastActivityAt of a summary is the greatest
\* timestamp among the history lines of its session.
C19_OneSummaryPerSession ==
  (Returned /\ Installed) =>
    /\ \A id \in IdsInHistory : Cardinality({k \in 1..Len(Listing) : Listing[k].id = id}) = 1
    /\ \A sm \in Summaries :
         /\ sm.id \in IdsInHistory
         /\ sm.lastActivityAt = isoFromUnixMs(MaxTsOf(sm.id))

\* two sessions are listed; one of them has two history lines, the newer one first
C19_Witness ==
  /\ Returned
  /\ Len(Listing) = 2
  /\ \E sm \in Summaries :
       \E i, j \in LinesOf(sm.id) :
         i < j /\ TsAt(i) > TsAt(j) /\ sm.lastActivityAt = isoFromUnixMs(TsAt(i))

\* C20: the summaries are in descending order of last activity: of two adjacent entries
\* the earlier has a timestamp greater than or equal to the later's.
C20_SortedByActivity ==
  (Returned /\ Installed) =>
    \A k \in 1..(Len(Listing) - 1) : MaxTsOf(Listing[k].id) >= MaxTsOf(Listing[k + 1].id)

\* the session that comes first in the history index is older, in ms of another order of
\* magnitude, and is listed second
C20_Witness ==
  /\ Returned
  /\ Len(Listing) = 2
  /\ \E i \in LinesOf(Listing[2].id) : \A j \in LinesOf(Listing[1].id) : i < j
  /\ MaxTsOf(Listing[2].id) < 10
  /\ MaxTsOf(Listing[1].id) >= 10


\* ---------------------------------------------------------- command labels
Labelled == ~IsNull(labels)

LabelAt(k) == Val(labels)[shown[k].name]

\* the full command of the session at k: its trimmed command, the shell placeholder
\* when the command is absent or blank
FullAt(k) ==
  LET c == shown[k].command
  IN IF IsNull(c) \/ Len(Trim(Val(c))) = 0 THEN ShellLabel ELSE Trim(Val(c))

WordsAt(k) == SplitWhitespace(FullAt(k))

BaseAt(k) == FirstToken(FullAt(k))

GroupAt(k) == {j \in 1..Len(shown) : BaseAt(j) = BaseAt(k)}

FullCommandsAt(k) == {FullAt(j) : j \in GroupAt(k)}

\* the first n words of the session at k are also the first n words of words
SharesWords(words, k, n) ==
  Len(words) >= n /\ SubSeq(words, 1, n) = SubSeq(WordsAt(k), 1, n)

\* the word lists of the other distinct full commands of the group
OtherWordsAt(k) == {WordsAt(j) : j \in {i \in GroupAt(k) : FullAt(i) # FullAt(k)}}

\* the lengths of the word prefixes of k that no other full command shares
UnsharedAt(k) ==
  {n \in 1..Len(WordsAt(k)) : \A words \in OtherWordsAt(k) : ~SharesWords(words, k, n)}

\* the shortest unshared word prefix, the whole command when every prefix is shared
ShortestUnsharedAt(k) ==
  JoinFrom(WordsAt(k),
           IF UnsharedAt(k) = {} THEN Len(WordsAt(k))
           ELSE CHOOSE n \in UnsharedAt(k) : \A m \in UnsharedAt(k) : n <= m)

\* C21: in a base-command group with more than one distinct full command, the label
\* of every session is the shortest word prefix of its full command that no other
\* distinct full command of the group shares (the whole command when each of its
\* prefixes is shared), so that sessions with one full command get one label.
C21_ShortestUnsharedPrefix ==
  Labelled =>
    \A k \in 1..Len(shown) :
      Cardinality(FullCommandsAt(k)) > 1 => LabelAt(k) = ShortestUnsharedAt(k)

\* one of the two word lists starts with the whole of the other
Nested(i, j) ==
  \/ SharesWords(WordsAt(j), i, Len(WordsAt(i)))
  \/ SharesWords(WordsAt(i), j, Len(WordsAt(j)))

\* the label of i is a word prefix of the command at j
LabelMatches(i, j) ==
  \E n \in 1..Len(WordsAt(j)) : JoinFrom(WordsAt(j), n) = LabelAt(i)

\* C22: two sessions with the same base command and different commands (different
\* word lists) get different labels, and each label is a word prefix of its own
\* command that, unless one command continues the other, the other command does
\* not match.
C22_DistinctLabels ==
  Labelled =>
    \A i, j \in 1..Len(shown) :
      (BaseAt(i) = BaseAt(j) /\ WordsAt(i) # WordsAt(j)) =>
        /\ LabelAt(i) # LabelAt(j)
        /\ LabelMatches(i, i)
        /\ ~Nested(i, j) => ~LabelMatches(i, j)

DeletedProject == last.project.id

SessionsOfDeleted ==
  {n \in DOMAIN last.pre.sessions : last.pre.sessions[n].projectId = DeletedProject}

\* the document before the deletion without the project and without exactly the
\* session records that refer to it
WithoutDeleted ==
  [projects |-> Drop(last.pre.projects, {DeletedProject}),
   sessions |-> Drop(last.pre.sessions, SessionsOfDeleted)]

LeftWithoutSessions ==
  {i \in DOMAIN last.pre.projects :
     \A n \in DOMAIN state.sessions : state.sessions[n].projectId # i}

\* C26: a reconciler run leaves every record whose name is live exactly as it was,
\* deletes no project, not even one left without records, and leaves every project
\* the document already had exactly as it was, also when a recovered session
\* derives that project's id.
C26_ReconcileFrame ==
  RanReconcile =>
    /\ \A n \in DOMAIN last.pre.sessions \cap live :
         /\ n \in DOMAIN state.sessions
         /\ state.sessions[n] = last.pre.sessions[n]
    /\ \A i \in DOMAIN last.pre.projects :
         /\ i \in DOMAIN state.projects
         /\ state.projects[i] = last.pre.projects[i]

\* a run that kept the record of a live session and pruned the only record of
\* another project, which is still in the document
C26_Witness ==
  /\ RanReconcile
  /\ DOMAIN last.pre.sessions \cap live # {}
  /\ DOMAIN last.pre.sessions \ live # {}
  /\ \E i \in LeftWithoutSessions : i \in DOMAIN state.projects

\* C27: after a reconciler run, every record the run created carries the path of
\* the project its project id refers to.
C27_RecordPathIsProjectPath ==
  RanReconcile =>
    \A n \in Recovered :
      /\ state.sessions[n].projectId \in DOMAIN state.projects
      /\ state.sessions[n].projectPath = state.projects[state.sessions[n].projectId].path

\* ------------------------------------------------------- selection indices
\* the last handler ended in a refresh that ran to completion
CompletedRefresh ==
  /\ last.op \in {"refresh", "closeError", "setMode", "cancelDelete", "deleteProject"}
  /\ last.ok

InRange(index, length) == 0 <= index /\ index <= Max(0, length - 1)

GuardedKeys == {"refresh", "setMode", "x", "tab", "p", "help", "c", "l", "search"}

\* C28: while a modal that registered ctx.modalClose is open, a screen key other
\* than q and C-c changes neither the context (mode, selection indices, lists), nor
\* the focus, the search, the open modal or the sessions list, nor the document, and
\* opens no error box and no confirmation; q closes the modal and does not end
\* the TUI.
C28_ModalBlocksKeys ==
  [][~IsNull(ui.modalClose) =>
       /\ last'.op \in GuardedKeys =>
            /\ ctx' = ctx
            /\ ui' = ui
            /\ state' = state
            /\ errors' = errors
            /\ pending' = pending
       /\ last'.op = "q" => (IsNull(ui'.modalClose) /\ ~ui'.done)]_vars

\* a mode key was pressed while the picker of tmux sessions was open in res mode
C28_Witness ==
  /\ ui.modalClose = Some("picker")
  /\ last.op = "setMode"
  /\ ~last.ok
  /\ ctx.mode = "res"

\* ----------------------------------------------------------- sessions list
\* the rows of the sessions list that belong to the session at index i
RowsOfSession(i) ==
  {k \in 1..Len(ui.listIndexToSessionIndex) : ui.listIndexToSessionIndex[k] = i}

SessionIndices == 0..(Len(ctx.sessions) - 1)

\* C29: listIndexToSessionIndex has one entry per row of the sessions list, every
\* entry is -1 or an index into ctx.sessions, the lone placeholder row stands for no
\* session, every session has its rows next to each other, one row unless it is the
\* expanded session, whose rows are all the remaining ones, and
\* getSelectedSessionIndex gives null or an index into ctx.sessions.
C29_RowMapConsistent ==
  /\ Len(ui.listIndexToSessionIndex) = ui.items
  /\ \A k \in 1..Len(ui.listIndexToSessionIndex) :
       ui.listIndexToSessionIndex[k] \in {-1} \cup SessionIndices
  /\ (Len(ctx.sessions) = 0 /\ ui.items > 0) => ui.listIndexToSessionIndex = <<-1>>
  /\ Len(ctx.sessions) > 0 =>
       \A i \in SessionIndices :
         /\ RowsOfSession(i) # {}
         /\ \A k1, k2 \in RowsOfSession(i) :
              \A k \in k1..k2 : k \in RowsOfSession(i)
         /\ Cardinality(RowsOfSession(i)) =
              (IF ui.expandedSessionIndex = Some(i)
               THEN ui.items - (Len(ctx.sessions) - 1) ELSE 1)
  /\ getSelectedSessionIndex(ctx, ui) \in {NULL} \cup {Some(i) : i \in SessionIndices}

\* the second of two sessions is expanded over three rows and the last row is
\* selected, which is a row of that session
C29_Witness ==
  /\ Len(ctx.sessions) = 2
  /\ ui.expandedSessionIndex = Some(1)
  /\ ui.listIndexToSessionIndex = <<0, 1, 1, 1>>
  /\ ui.items = 4
  /\ ui.selected = 3
  /\ getSelectedSessionIndex(ctx, ui) = Some(1)
====
